---- MODULE Spec2Model ----
(***************************************************************************)
(* The SOLECTRUS batching write manager (SensorManager) on the single      *)
(* asyncio event loop of Home Assistant, together with the part of the     *)
(* sink adapter (SolectrusInfluxClient) and of the entry lifecycle         *)
(* (async_unload_entry) that it interacts with.                            *)
(*                                                                         *)
(* Every action is one run of a coroutine between two suspension points.   *)
(* The only suspension point of the manager modelled here is the await of  *)
(* SolectrusInfluxClient.async_write_batch inside _flush_batch.            *)
(***************************************************************************)
EXTENDS Integers, Sequences, FiniteSets, TLC

VARIABLES
    sensors,      \* entity_id -> [last_value, last_timestamp] of its ConfiguredSensor
    pending,      \* SensorManager._pending: pending key -> PendingPoint
    next_id,      \* identity of the next PendingPoint object to be allocated
    max_id,       \* bound: change events are delivered while next_id <= max_id
    inflight,     \* _flush_batch coroutines suspended in async_write_batch
    sink,         \* ids of the PendingPoints the sink has accepted
    unsub_state,  \* SensorManager._unsub_state (0 is None)
    unsub_batch,  \* SensorManager._unsub_batch (0 is None)
    subs,         \* event source: subscription handles that still deliver events
    timers,       \* event source: timer handles that still fire
    released,     \* event source: handle -> number of times its token was called
    api_call,     \* the lifecycle coroutine currently suspended ("none" if none)
    closed,       \* async_unload_entry has called client.async_close()
    write_api,    \* SolectrusInfluxClient._write_api is not None
    fetching,     \* forecast handlers suspended in the get_forecasts service call
    source,       \* event source: the forecast it publishes or answers with
    coerce,       \* one call of _coerce_value: its arguments and its result
    flow,         \* SolectrusConfigFlow: the step in progress and the config entries
    call,         \* one call of _state_to_value or _state_to_timestamp and its result
    influx,       \* a SolectrusInfluxClient and the coroutines suspended inside it
    buffer,       \* a SensorBuffer and the flush coroutines suspended in write_fn
    overlapped,   \* history: async_start ran while an earlier start's handles were held
    stopped,      \* history: async_stop ran and async_start has not run since
    stop_ok,      \* history: the last async_stop returned with its final write accepted
    last          \* history: the step taken last and its inputs

vars == <<sensors, pending, next_id, max_id, inflight, sink, unsub_state, unsub_batch,
          subs, timers, released, api_call, closed, write_api,
          fetching, source, coerce, flow, call, influx, buffer,
          overlapped, stopped, stop_ok, last>>

(***************************************************************************)
(* Bounds of the model.                                                    *)
(***************************************************************************)
MaxPoints == 2      \* Spec: change events are delivered while next_id <= MaxPoints
MaxInflight == 2    \* timer ticks fire while fewer flushes than this are in flight
MaxStarts == 2      \* SpecAny: async_start calls on one manager
MaxPointsAny == 1   \* SpecAny: change events are delivered while next_id <= MaxPointsAny
MaxPointsFc == 2    \* SpecForecast: change events are delivered while next_id <= MaxPointsFc
MaxSlots == 2       \* items of a forecast list
MaxPointsLive == 2  \* SpecLive: change events are delivered while next_id <= MaxPointsLive
MaxAttrs == 2       \* SpecStatic: time-like attributes a state carries
MaxPointsEv == 3    \* SpecEvents: change events are delivered while next_id <= MaxPointsEv
MaxFetching == 1    \* forecast handlers of one entity suspended in the service call
MaxCalls == 2       \* SpecClient: coroutines suspended inside the sink wrapper at once
MaxClients == 2     \* SpecClient: InfluxDBClient objects built over a run
MaxEnqueued == 3    \* SpecBuffer: items enqueued over a run
MaxFlushes == 2     \* SpecBuffer: flush coroutines suspended in write_fn at once

(***************************************************************************)
(* Program constants.                                                      *)
(***************************************************************************)
GAP_FILL_ZERO_RESUME_THRESHOLD == 30

\* A datetime is [s |-> whole seconds, us |-> microseconds]; NoTime is None.
NoTime == [s |-> -1, us |-> 0]

STATE_UNKNOWN == "unknown"
STATE_UNAVAILABLE == "unavailable"

(***************************************************************************)
(* Dynamically typed values as a tagged union.                             *)
(***************************************************************************)
NoneV == [t |-> "none"]
IntV(n) == [t |-> "int", i |-> n]
StrV(s) == [t |-> "str", s |-> s]
BoolV(b) == [t |-> "bool", b |-> b]
\* A float: finite with its value in thousandths, infinite, or not-a-number.
FloatV(m) == [t |-> "float", k |-> "fin", m |-> m]
InfV == [t |-> "float", k |-> "inf", m |-> 0]
NaNV == [t |-> "float", k |-> "nan", m |-> 0]
\* A value of any other type (a list, a dict).
OtherV == [t |-> "other"]
\* An exception leaving the function instead of a value.
RaisedV(exc) == [t |-> "raise", exc |-> exc]

IsNumber(v) == v.t \in {"int", "bool", "float"}
IsNaN(v) == v.t = "float" /\ v.k = "nan"
IsInf(v) == v.t = "float" /\ v.k = "inf"
\* The value of a number that is not NaN, in thousandths (an infinity is
\* above every finite value of the model).
Num(v) ==
    IF v.t = "int" THEN v.i * 1000
    ELSE IF v.t = "bool" THEN (IF v.b THEN 1000 ELSE 0)
    ELSE IF v.k = "fin" THEN v.m
    ELSE 1000000

\* Python ==: numbers (bool included) compare by value, NaN equals nothing,
\* strings compare by content.
PyEq(a, b) ==
    IF IsNumber(a) /\ IsNumber(b) THEN ~IsNaN(a) /\ ~IsNaN(b) /\ Num(a) = Num(b)
    ELSE a = b

\* value == 0 and value > 0 of a number
PyIsZero(v) == ~IsNaN(v) /\ Num(v) = 0
PyPositive(v) == ~IsNaN(v) /\ Num(v) > 0

(***************************************************************************)
(* Inputs: the raw states the event source delivers, and their times.      *)
(***************************************************************************)
RawStates == {"0", "5", "abc", "unavailable", "inf"}
Times == [s : {0, 30}, us : {0, 500000}] \cup {[s |-> 29, us |-> 0]}
NoState == [t |-> "nostate"]
\* Numeric states at every time; the states no sensor accepts at one time.
States ==
    [state : {"0", "5"}, last_updated : Times]
    \cup [state : RawStates, last_updated : {[s |-> 0, us |-> 0]}]

\* int(raw) for the raw strings that int() accepts.
ParseInt == ("0" :> 0) @@ ("1" :> 1) @@ ("5" :> 5) @@ ("05" :> 5) @@ ("+5" :> 5)
\* float(raw) for the raw strings that float() accepts and int() does not.
ParseFloat == ("5.7" :> FloatV(5700)) @@ ("inf" :> InfV) @@ ("nan" :> NaNV)
\* str(n) for the integers the model coerces to string.
StrOfInt == (0 :> "0") @@ (1 :> "1") @@ (5 :> "5")
\* str(x) for the floats of the model.
StrOfFloat(v) ==
    IF v.k = "inf" THEN "inf"
    ELSE IF v.k = "nan" THEN "nan"
    ELSE IF v.m = 5700 THEN "5.7"
    ELSE IF v.m = 5500 THEN "5.5"
    ELSE IF v.m = 5300 THEN "5.3"
    ELSE IF v.m = 4500 THEN "4.5"
    ELSE IF v.m = 5000 THEN "5.0"
    ELSE IF v.m = 1000 THEN "1.0"
    ELSE "0.0"
\* raw.lower() for the strings of the model that are not lower case.
Lower(s) ==
    IF s = "ON" THEN "on"
    ELSE IF s = "OFF" THEN "off"
    ELSE IF s = "Yes" THEN "yes"
    ELSE IF s = "True" THEN "true"
    ELSE s
\* int(x) of a finite float: truncation toward zero.
Trunc(m) == IF m >= 0 THEN m \div 1000 ELSE -((-m) \div 1000)

BOOL_STRING_MAP ==
    ("on" :> TRUE) @@ ("true" :> TRUE) @@ ("1" :> TRUE) @@ ("yes" :> TRUE) @@
    ("off" :> FALSE) @@ ("false" :> FALSE) @@ ("0" :> FALSE) @@ ("no" :> FALSE)

\* Every string that int() accepts is returned as that integer.
StateToValue_NoRoundTrip(state) ==
    IF state = NoState THEN NoneV
    ELSE IF state.state \in {STATE_UNKNOWN, STATE_UNAVAILABLE} THEN NoneV
    ELSE IF state.state \in DOMAIN ParseInt THEN IntV(ParseInt[state.state])
    ELSE IF state.state \in DOMAIN ParseFloat THEN ParseFloat[state.state]
    ELSE IF Lower(state.state) \in {"on", "true"} THEN BoolV(TRUE)
    ELSE IF Lower(state.state) \in {"off", "false"} THEN BoolV(FALSE)
    ELSE StrV(state.state)

StateToValue(state) ==
    IF state = NoState THEN NoneV
    ELSE IF state.state \in {STATE_UNKNOWN, STATE_UNAVAILABLE} THEN NoneV
    ELSE IF state.state \in DOMAIN ParseInt /\ StrOfInt[ParseInt[state.state]] = state.state
         THEN IntV(ParseInt[state.state])
    ELSE IF state.state \in DOMAIN ParseInt THEN FloatV(ParseInt[state.state] * 1000)
    ELSE IF state.state \in DOMAIN ParseFloat THEN ParseFloat[state.state]
    ELSE IF Lower(state.state) \in {"on", "true"} THEN BoolV(TRUE)
    ELSE IF Lower(state.state) \in {"off", "false"} THEN BoolV(FALSE)
    ELSE StrV(state.state)

\* dt_util.as_utc(dt_util.parse_datetime(raw)) for the raw times of the model;
\* NoTime where parse_datetime returns None.
ParseDatetime(raw) ==
    IF raw = StrV("T30") THEN [s |-> 30, us |-> 0]
    ELSE IF raw = StrV("T30.5") THEN [s |-> 30, us |-> 500000]
    ELSE IF raw = StrV("T40") THEN [s |-> 40, us |-> 0]
    ELSE NoTime

(***************************************************************************)
(* _state_to_timestamp.  Numeric attributes are counted in units of 10^8,  *)
(* in which 10^12 is 10000 and the last second datetime can hold (the end  *)
(* of the year 9999) lies in unit 2534.                                    *)
(***************************************************************************)
TIME_KEYS == <<"timestamp", "time", "datetime", "period_end", "last_update", "last_updated">>
MillisThreshold == 10000
LastUnixSecond == 2534

\* Attribute values: a datetime, a number, a string, anything else.
DatetimeA(ts) == [t |-> "datetime", at |-> ts]
NumA(n) == [t |-> "num", n |-> n]
NaNA == [t |-> "num", n |-> -1]

\* A value of exactly 10^12 counts as milliseconds too.
IsMillis_AtThreshold(n) == n >= MillisThreshold

\* raw > 10**12
IsMillis(n) == n > MillisThreshold

\* datetime.fromtimestamp(seconds, tz=UTC); NoTime where it raises
\* OverflowError, OSError or ValueError.
FromTimestamp(a) ==
    LET seconds == IF IsMillis(a.n) THEN a.n \div 1000 ELSE a.n
    IN  IF a = NaNA \/ seconds > LastUnixSecond THEN NoTime
        ELSE [s |-> seconds, us |-> 0]

\* state.attributes of a state (the states the manager is sent carry none).
AttributesOf(state) ==
    IF "attributes" \in DOMAIN state THEN state.attributes ELSE <<>>

\* The loop over the attribute keys, from key i on.
RECURSIVE AttributeTime(_, _, _)
AttributeTime(attributes, i, last_updated) ==
    IF i > Len(TIME_KEYS) THEN last_updated
    ELSE IF TIME_KEYS[i] \notin DOMAIN attributes
         THEN AttributeTime(attributes, i + 1, last_updated)
    ELSE LET raw == attributes[TIME_KEYS[i]]
         IN  IF raw.t = "datetime" THEN raw.at
             ELSE IF raw.t = "num" /\ FromTimestamp(raw) # NoTime THEN FromTimestamp(raw)
             ELSE IF raw.t = "str" /\ ParseDatetime(raw) # NoTime THEN ParseDatetime(raw)
             ELSE AttributeTime(attributes, i + 1, last_updated)

StateToTimestamp(state) ==
    IF state = NoState THEN NoTime
    ELSE AttributeTime(AttributesOf(state), 1, state.last_updated)

\* as_utc(timestamp).replace(microsecond=0): the instant, cut to whole seconds.
NormalizeTimestamp(ts) == [ts EXCEPT !.us = 0]

\* timestamp - timedelta(seconds=n)
MinusSeconds(ts, n) == [ts EXCEPT !.s = @ - n]

\* (a - b) >= timedelta(seconds=n)
GapAtLeast(a, b, n) ==
    \/ a.s - b.s > n
    \/ (a.s - b.s = n /\ a.us >= b.us)

\* float(value): a float, or the exception float() raises.
ToFloat(value) ==
    IF value.t = "int" THEN FloatV(value.i * 1000)
    ELSE IF value.t = "bool" THEN FloatV(IF value.b THEN 1000 ELSE 0)
    ELSE IF value.t = "float" THEN value
    ELSE IF value.t = "str" THEN
        (IF value.s \in DOMAIN ParseInt THEN FloatV(ParseInt[value.s] * 1000)
         ELSE IF value.s \in DOMAIN ParseFloat THEN ParseFloat[value.s]
         ELSE RaisedV("ValueError"))
    ELSE RaisedV("TypeError")

\* int(x) of a float: OverflowError for an infinity, ValueError for NaN.
IntOfFloat(x) ==
    IF x.k = "fin" THEN IntV(Trunc(x.m))
    ELSE IF x.k = "inf" THEN RaisedV("OverflowError")
    ELSE RaisedV("ValueError")

\* A value float() rejects is taken for zero.
CoerceInt_ZeroOnError(value) ==
    LET x == ToFloat(value)
    IN  IF x.t = "raise" THEN IntV(0) ELSE IntOfFloat(x)

\* _coerce_int: int(float(value))
CoerceInt(value) ==
    LET x == ToFloat(value)
    IN  IF x.t = "raise" THEN x ELSE IntOfFloat(x)

\* str(value)
ToStr(value) ==
    IF value.t = "str" THEN value
    ELSE IF value.t = "int" THEN StrV(StrOfInt[value.i])
    ELSE IF value.t = "bool" THEN StrV(IF value.b THEN "True" ELSE "False")
    ELSE IF value.t = "float" THEN StrV(StrOfFloat(value))
    ELSE IF value.t = "none" THEN StrV("None")
    ELSE StrV("[]")

\* SIMPLE_CONVERTERS[data_type](value)
SimpleConvert(value, data_type) ==
    IF data_type = "int" THEN CoerceInt(value)
    ELSE IF data_type = "float" THEN ToFloat(value)
    ELSE ToStr(value)

\* The table looked up with the string as it is.
CoerceBool_CaseSensitive(value) ==
    IF value.t = "bool" THEN value
    ELSE IF value.t \in {"int", "float"} THEN BoolV(IsNaN(value) \/ Num(value) # 0)
    ELSE IF value.t = "str" /\ value.s \in DOMAIN BOOL_STRING_MAP
         THEN BoolV(BOOL_STRING_MAP[value.s])
    ELSE NoneV

\* The bool branch of _coerce_value.
CoerceBool(value) ==
    IF value.t = "bool" THEN value
    ELSE IF value.t \in {"int", "float"} THEN BoolV(IsNaN(value) \/ Num(value) # 0)
    ELSE IF value.t = "str" /\ Lower(value.s) \in DOMAIN BOOL_STRING_MAP
         THEN BoolV(BOOL_STRING_MAP[Lower(value.s)])
    ELSE NoneV

\* except (TypeError, ValueError): return None; anything else leaves the function.
ExceptCoerce(r) ==
    IF r.t = "raise" /\ r.exc \in {"TypeError", "ValueError"} THEN NoneV ELSE r

CoerceValue(value, data_type) ==
    IF data_type \in {"int", "float", "string"}
    THEN ExceptCoerce(SimpleConvert(value, data_type))
    ELSE IF data_type = "bool" THEN ExceptCoerce(CoerceBool(value))
    ELSE value

IsRaised(v) == v.t = "raise"

(***************************************************************************)
(* Configuration: the sensors of the entry.                                *)
(***************************************************************************)
\* The entities an entry may map, in the order of the entry's options.
SensorOrder == <<"sensor.house_power", "sensor.pv_forecast", "weather.home">>
AllEntities == {SensorOrder[i] : i \in 1..Len(SensorOrder)}

\* The static fields of the ConfiguredSensor built for each entity.
SENSOR_DEFINITIONS ==
    ("sensor.house_power" :>
        [key |-> "HOUSE_POWER", measurement |-> "house", field |-> "power",
         data_type |-> "int"])
    @@ ("sensor.pv_forecast" :>
        [key |-> "INVERTER_POWER_FORECAST", measurement |-> "inverter_forecast",
         field |-> "power", data_type |-> "int"])
    @@ ("weather.home" :>
        [key |-> "OUTDOOR_TEMP_FORECAST", measurement |-> "outdoor_forecast",
         field |-> "temperature", data_type |-> "float"])

\* The keys whose sensors carry a forecast series.
FORECAST_SENSOR_KEYS == {"INVERTER_POWER_FORECAST", "OUTDOOR_TEMP_FORECAST"}
IsForecast(e) == SENSOR_DEFINITIONS[e].key \in FORECAST_SENSOR_KEYS

\* self._sensors: the entities of this manager.
Entities == DOMAIN sensors
EventEntities == Entities \cup {"sensor.not_configured"}

EmptyMap == [k \in {} |-> NoneV]

\* The key without the timestamp.
PendingKey_SensorOnly(e, ts) == <<SENSOR_DEFINITIONS[e].key, NoTime>>

\* The key without the sensor.
PendingKey_TimestampOnly(e, ts) == <<"", ts>>

\* f"{sensor.key}:{normalized_timestamp.isoformat()}"
PendingKey(e, ts) == <<SENSOR_DEFINITIONS[e].key, ts>>

Ids(m) == {m[k].id : k \in DOMAIN m}
PendingIds == Ids(pending)
InflightIds == UNION {Ids(f.batch) : f \in inflight}

(***************************************************************************)
(* The sink adapter: what the InfluxDB client library does with a write,   *)
(* and the failure class async_write_batch raises for it.                  *)
(***************************************************************************)
WriteOutcomes == {"ok", "api_401", "api_other", "http_or_os_error"}
\* What building the client does when async_write_batch connects first.
ConnectOutcomes == {"connect_http_or_os_error", "connect_value_or_type_error"}

\* The outcomes of a batched write that found the write API absent or present.
OutcomesOf(connects) ==
    IF connects THEN WriteOutcomes \cup ConnectOutcomes ELSE WriteOutcomes

Classify(outcome) ==
    IF outcome = "ok" THEN "none"
    ELSE IF outcome = "api_401" THEN "SolectrusAuthError"
    ELSE IF outcome = "api_other" THEN "SolectrusInfluxError"
    ELSE IF outcome = "connect_value_or_type_error" THEN "SolectrusInfluxError"
    ELSE "SolectrusConnectionError"

\* isinstance(err, SolectrusInfluxError): the base class and its two subclasses.
IsSolectrusInfluxError(cls) ==
    cls \in {"SolectrusInfluxError", "SolectrusConnectionError", "SolectrusAuthError"}

(***************************************************************************)
(* SensorManager: the synchronous helpers.                                 *)
(***************************************************************************)
QueuePoint(p, e, value, ts, id) ==
    LET coerced == CoerceValue(value, SENSOR_DEFINITIONS[e].data_type)
        nts == NormalizeTimestamp(ts)
        key == PendingKey(e, nts)
    IN  IF coerced = NoneV THEN p
        ELSE [k \in DOMAIN p \cup {key} |->
                IF k = key
                THEN [sensor |-> e, value |-> coerced, timestamp |-> nts, id |-> id]
                ELSE p[k]]

\* A dedup against the pending map instead of the last recorded pair.
IsDuplicate_PendingOnly(e, coerced, ts) ==
    /\ PendingKey(e, ts) \in DOMAIN pending
    /\ PyEq(pending[PendingKey(e, ts)].value, coerced)

IsDuplicate(e, coerced, ts) ==
    /\ PyEq(sensors[e].last_value, coerced)
    /\ sensors[e].last_timestamp = ts

\* The gap compared with > instead of >=.
ShouldGapFill_Strict(e, coerced, ts) ==
    /\ sensors[e].last_timestamp # NoTime
    /\ IsNumber(sensors[e].last_value)
    /\ PyIsZero(sensors[e].last_value)
    /\ IsNumber(coerced)
    /\ PyPositive(coerced)
    /\ GapAtLeast(ts, sensors[e].last_timestamp, GAP_FILL_ZERO_RESUME_THRESHOLD + 1)

ShouldGapFill(e, coerced, ts) ==
    /\ sensors[e].last_timestamp # NoTime
    /\ IsNumber(sensors[e].last_value)
    /\ PyIsZero(sensors[e].last_value)
    /\ IsNumber(coerced)
    /\ PyPositive(coerced)
    /\ GapAtLeast(ts, sensors[e].last_timestamp, GAP_FILL_ZERO_RESUME_THRESHOLD)

\* The swap forgotten: self._pending keeps the entries handed to the write.
SwapOut_Keep(p) == p

\* self._pending after the swap of _flush_batch: a fresh, empty map.
SwapOut(p) == EmptyMap

\* An except clause for connection failures only.
CaughtByFlush_ConnectionOnly(cls) == cls = "SolectrusConnectionError"

\* The except clause of _flush_batch.
CaughtByFlush(cls) == IsSolectrusInfluxError(cls)

\* self._pending.update(pending): the failed batch overwrites newer entries.
Remerge_Overwrite(p, batch) ==
    [k \in DOMAIN p \cup DOMAIN batch |-> IF k \in DOMAIN batch THEN batch[k] ELSE p[k]]

\* self._pending = pending: the failed batch replaces the live map.
Remerge_Replace(p, batch) == batch

\* The failed batch is dropped.
Remerge_Drop(p, batch) == p

\* for key, item in pending.items(): self._pending.setdefault(key, item)
Remerge(p, batch) ==
    [k \in DOMAIN p \cup DOMAIN batch |-> IF k \in DOMAIN p THEN p[k] ELSE batch[k]]

\* The handle kept after its token was called.
ClearedHandle_Kept(h) == h

\* self._unsub_state = None / self._unsub_batch = None after the token was called.
ClearedHandle(h) == 0

\* The final flush started but not awaited.
StopResume_NoAwait(began, origin) == "none"

\* Where async_stop is after its synchronous part: suspended in the await of
\* the final _flush_batch when that flush has a write in flight.
StopResume(began, origin) == IF began THEN origin ELSE "none"

\* History kept with each flush in flight: the latest point enqueued under each
\* key since its swap, and whether another flush was in flight with it.
NoteEnqueued(fl, before, after) ==
    LET new == {k \in DOMAIN after : k \notin DOMAIN before \/ after[k].id # before[k].id}
    IN  {[f EXCEPT !.newer = [k \in DOMAIN f.newer \cup new |->
                                 IF k \in new THEN after[k].id ELSE f.newer[k]]]
         : f \in fl}

\* One Point of the write for the first entry only.
BuildPoints_FirstOnly(batch) ==
    IF DOMAIN batch = {} THEN {}
    ELSE LET k == CHOOSE x \in DOMAIN batch : \A y \in DOMAIN batch : batch[x].id <= batch[y].id
         IN  {[measurement |-> SENSOR_DEFINITIONS[batch[k].sensor].measurement,
               field |-> SENSOR_DEFINITIONS[batch[k].sensor].field,
               value |-> batch[k].value,
               time |-> batch[k].timestamp.s,
               id |-> batch[k].id]}

\* The Point built for every item of the swapped-out map: measurement, field
\* and value, and the time at WritePrecision.S.
BuildPoints(batch) ==
    {[measurement |-> SENSOR_DEFINITIONS[batch[k].sensor].measurement,
      field |-> SENSOR_DEFINITIONS[batch[k].sensor].field,
      value |-> batch[k].value,
      time |-> batch[k].timestamp.s,
      id |-> batch[k].id] : k \in DOMAIN batch}

\* _flush_batch up to its await: p is self._pending, fl the flushes in flight.
FlushBegins(p) == DOMAIN p # {}
FlushPending(p) == IF FlushBegins(p) THEN SwapOut(p) ELSE p
FlushInflight(p, fl, origin) ==
    IF FlushBegins(p)
    THEN {[f EXCEPT !.alone = FALSE] : f \in fl}
         \cup {[batch |-> p, points |-> BuildPoints(p), connects |-> ~write_api,
                 origin |-> origin, newer |-> EmptyMap, alone |-> fl = {}]}
    ELSE fl

NextHandle == Len(released) + 1

(***************************************************************************)
(* Forecast series.  A dict is [kind |-> "dict", d |-> its items], a list  *)
(* [kind |-> "list", items |-> its items], anything else [kind |-> "other"].*)
(***************************************************************************)
Dict(d) == [kind |-> "dict", d |-> d]
List(items) == [kind |-> "list", items |-> items]
Other == [kind |-> "other"]

\* mapping.get(key)
Get(obj, key) == IF key \in DOMAIN obj.d THEN obj.d[key] ELSE NoneV

\* The truth value of a raw time: None and the empty string are false.
Truthy(v) == v # NoneV /\ v # StrV("")

\* The first truthy value among the time keys tried, or None.
RECURSIVE RawTime(_, _, _)
RawTime(item, time_keys, i) ==
    IF i > Len(time_keys) THEN NoneV
    ELSE IF Truthy(Get(item, time_keys[i])) THEN Get(item, time_keys[i])
    ELSE RawTime(item, time_keys, i + 1)

\* The loop over the items of a forecast list: (timestamp, value) of every
\* dict that has a parseable raw time and a value.
RECURSIVE SeriesOf(_, _, _, _)
SeriesOf(items, value_key, time_keys, i) ==
    IF i > Len(items) THEN <<>>
    ELSE IF items[i].kind # "dict" THEN SeriesOf(items, value_key, time_keys, i + 1)
    ELSE
        LET raw_time == RawTime(items[i], time_keys, 1)
            when == IF raw_time = NoneV THEN NoTime ELSE ParseDatetime(raw_time)
            value == Get(items[i], value_key)
        IN  IF raw_time = NoneV \/ when = NoTime \/ value = NoneV
            THEN SeriesOf(items, value_key, time_keys, i + 1)
            ELSE <<[timestamp |-> when, value |-> value, slot |-> i]>>
                 \o SeriesOf(items, value_key, time_keys, i + 1)

AttributeForecastSeries(forecast_list, value_key) ==
    IF forecast_list.kind # "list" THEN <<>>
    ELSE SeriesOf(forecast_list.items, value_key, <<"datetime", "time", "period_end">>, 1)

\* The forecast of whichever entity the response holds.
WeatherTemperatureSeries_AnyEntity(response, entity_id) ==
    IF response.kind = "raise" THEN <<>>
    ELSE IF response.kind # "dict" THEN <<>>
    ELSE LET any == CHOOSE x \in DOMAIN response.d : TRUE
         IN  IF Get(response, any).kind # "dict" THEN <<>>
             ELSE IF Get(Get(response, any), "forecast") = NoneV THEN <<>>
             ELSE IF Get(Get(response, any), "forecast").kind # "list" THEN <<>>
             ELSE SeriesOf(Get(Get(response, any), "forecast").items, "temperature",
                           <<"datetime">>, 1)

WeatherTemperatureSeries(response, entity_id) ==
    IF response.kind = "raise" THEN <<>>
    ELSE IF response.kind # "dict" THEN <<>>
    ELSE IF Get(response, entity_id) = NoneV THEN <<>>
    ELSE IF Get(response, entity_id).kind # "dict" THEN <<>>
    ELSE IF Get(Get(response, entity_id), "forecast") = NoneV THEN <<>>
    ELSE IF Get(Get(response, entity_id), "forecast").kind # "list" THEN <<>>
    ELSE SeriesOf(Get(Get(response, entity_id), "forecast").items, "temperature",
                  <<"datetime">>, 1)

\* a < b for two datetimes
TimeBefore(a, b) == a.s < b.s \/ (a.s = b.s /\ a.us < b.us)

\* sorted(series, key=lambda pair: pair[0]): a stable sort by timestamp.
RECURSIVE InsertSorted(_, _)
InsertSorted(sorted, x) ==
    IF sorted = <<>> THEN <<x>>
    ELSE IF TimeBefore(x.timestamp, Head(sorted).timestamp) THEN <<x>> \o sorted
    ELSE <<Head(sorted)>> \o InsertSorted(Tail(sorted), x)

RECURSIVE SortSeries(_)
SortSeries(series) ==
    IF series = <<>> THEN <<>>
    ELSE InsertSorted(SortSeries(SubSeq(series, 1, Len(series) - 1)), series[Len(series)])

\* The series left as the list gave it.
OrderSeries_Unsorted(series) == series

OrderSeries(series) == SortSeries(series)

\* The loop of _queue_forecast_points over the sorted series: st is the
\* pending map, the next point identity and whether an exception left the loop.
RECURSIVE QueueSeries(_, _, _, _)
QueueSeries(series, i, e, st) ==
    IF i > Len(series) THEN st
    ELSE
        LET coerced == CoerceValue(series[i].value, SENSOR_DEFINITIONS[e].data_type)
        IN  IF IsRaised(coerced) THEN [st EXCEPT !.raised = TRUE]
            ELSE IF coerced = NoneV THEN QueueSeries(series, i + 1, e, st)
            ELSE QueueSeries(series, i + 1, e,
                    [pending |-> QueuePoint(st.pending, e, series[i].value,
                                            NormalizeTimestamp(series[i].timestamp),
                                            st.next_id),
                     next_id |-> st.next_id + 1,
                     order |-> Append(st.order, NormalizeTimestamp(series[i].timestamp)),
                     raised |-> FALSE])

\* entity_id.startswith("weather.")
IsWeatherEntity(e) == e = "weather.home"

\* The key whose value a forecast slot is read for.
ValueKey(e) ==
    IF SENSOR_DEFINITIONS[e].key = "OUTDOOR_TEMP_FORECAST" THEN "temperature"
    ELSE SENSOR_DEFINITIONS[e].field

\* The event source holds no forecast.
NoSource == [kind |-> "none"]

\* No step of the config flow has run and no config entry exists.
NoFlow == [step |-> "idle", entries |-> <<>>]

\* No call of a static helper is being followed.
NoStatic == [fn |-> "none", done |-> TRUE]

\* No call of _coerce_value is being followed.
NoCall == [value |-> NoneV, data_type |-> "none", result |-> NoneV, done |-> TRUE]

\* A freshly constructed SolectrusInfluxClient: no client, no write API.
NoClient ==
    [client |-> 0, write_api |-> 0, tasks |-> {}, next_client |-> 1,
     built |-> 0, apis |-> 0, created |-> {}, shut |-> {}]

\* A freshly constructed SensorBuffer: an empty deque.
NoBuffer ==
    [items |-> <<>>, next |-> 1, written |-> <<>>, held |-> <<>>]

InitWith(bound, config, src) ==
    /\ max_id = bound
    /\ source = src
    /\ sensors = [e \in config |-> [last_value |-> NoneV, last_timestamp |-> NoTime]]
    /\ pending = EmptyMap
    /\ next_id = 1
    /\ inflight = {}
    /\ sink = {}
    /\ unsub_state = 0
    /\ unsub_batch = 0
    /\ subs = {}
    /\ timers = {}
    /\ released = <<>>
    /\ api_call = "none"
    /\ closed = FALSE
    /\ write_api = FALSE
    /\ fetching = [e \in config |-> 0]
    /\ coerce = NoCall
    /\ flow = NoFlow
    /\ call = NoStatic
    /\ influx = NoClient
    /\ buffer = NoBuffer
    /\ overlapped = FALSE
    /\ stopped = FALSE
    /\ stop_ok = FALSE
    /\ last = [op |-> "init"]

Init == InitWith(MaxPoints, {"sensor.house_power"}, NoSource)

(***************************************************************************)
(* async_start: queue the initial values, subscribe, arm the timer, flush. *)
(***************************************************************************)
\* The sensors async_start passes over.
SkipsForecast(e) == IsForecast(e)

RECURSIVE QueueInitial(_, _, _)
QueueInitial(i, cur, st) ==
    IF i > Len(SensorOrder) THEN st
    ELSE IF SensorOrder[i] \notin DOMAIN st.sensors THEN QueueInitial(i + 1, cur, st)
    ELSE IF SkipsForecast(SensorOrder[i]) THEN QueueInitial(i + 1, cur, st)
    ELSE
        LET e == SensorOrder[i]
            value == StateToValue(cur[e])
            timestamp == NormalizeTimestamp(StateToTimestamp(cur[e]))
            coerced == IF value = NoneV THEN NoneV
                       ELSE CoerceValue(value, SENSOR_DEFINITIONS[e].data_type)
        IN  IF value = NoneV \/ coerced = NoneV THEN QueueInitial(i + 1, cur, st)
            ELSE IF IsRaised(coerced) THEN [st EXCEPT !.raised = TRUE]
            ELSE QueueInitial(i + 1, cur,
                    [sensors |-> [st.sensors EXCEPT ![e] =
                                     [last_value |-> coerced, last_timestamp |-> timestamp]],
                     pending |-> QueuePoint(st.pending, e, coerced, timestamp, st.next_id),
                     next_id |-> st.next_id + 1,
                     raised |-> FALSE])

Start(cur) ==
    /\ api_call = "none"
    /\ ~closed
    /\ LET st == QueueInitial(1, cur, [sensors |-> sensors, pending |-> pending,
                                       next_id |-> next_id, raised |-> FALSE])
           fl == NoteEnqueued(inflight, pending, st.pending)
       IN  /\ sensors' = st.sensors
           /\ next_id' = st.next_id
           /\ IF st.raised
              THEN \* the exception leaves async_start and async_setup_entry
                   /\ pending' = st.pending
                   /\ inflight' = fl
                   /\ api_call' = "failed"
                   /\ UNCHANGED <<unsub_state, unsub_batch, subs, timers, released,
                                  overlapped>>
              ELSE /\ pending' = FlushPending(st.pending)
                   /\ inflight' = FlushInflight(st.pending, fl, "start")
                   /\ api_call' = (IF FlushBegins(st.pending) THEN "start" ELSE "none")
                   /\ unsub_state' = NextHandle
                   /\ unsub_batch' = NextHandle + 1
                   /\ subs' = subs \cup {NextHandle}
                   /\ timers' = timers \cup {NextHandle + 1}
                   /\ released' = released \o <<0, 0>>
                   /\ overlapped' = (overlapped \/ unsub_state # 0 \/ unsub_batch # 0)
           /\ last' = [op |-> "start", raised |-> st.raised,
                       queued |-> st.next_id - next_id]
    /\ stopped' = FALSE
    /\ stop_ok' = FALSE
    /\ UNCHANGED <<sink, closed, write_api, max_id, fetching, coerce, source, flow, call,
                   influx, buffer>>

\* The current states async_start may find: none once the bound is reached.
CurrentStates ==
    {cur \in [Entities -> IF next_id <= max_id THEN States \cup {NoState} ELSE {NoState}] :
        \A e \in Entities :
            IsForecast(e) => cur[e] \in {NoState, [state |-> "5", last_updated |-> [s |-> 0, us |-> 0]]}}

\* async_setup_entry: one async_start on a manager just constructed.
StartFresh ==
    /\ NextHandle = 1
    /\ api_call = "none"
    /\ \E cur \in CurrentStates : Start(cur)

(***************************************************************************)
(* _handle_state_change, invoked by a live subscription.                   *)
(***************************************************************************)
HandleStateChange(e, new_state) ==
    /\ subs # {}
    /\ next_id <= max_id
    /\ (e \in Entities => ~IsForecast(e))
    /\ LET value == StateToValue(new_state)
           timestamp == NormalizeTimestamp(StateToTimestamp(new_state))
           coerced == IF e \in Entities /\ value # NoneV
                      THEN CoerceValue(value, SENSOR_DEFINITIONS[e].data_type)
                      ELSE NoneV
       IN  IF e \notin Entities \/ value = NoneV \/ coerced = NoneV
           THEN /\ UNCHANGED <<sensors, pending, next_id, inflight>>
                /\ last' = [op |-> "event", result |-> "rejected"]
           ELSE IF IsRaised(coerced)
           THEN \* the exception leaves the handler before anything was changed
                /\ UNCHANGED <<sensors, pending, next_id, inflight>>
                /\ last' = [op |-> "event", result |-> "raised"]
           ELSE IF IsDuplicate(e, coerced, timestamp)
           THEN /\ UNCHANGED <<sensors, pending, next_id, inflight>>
                /\ last' = [op |-> "event", result |-> "suppressed"]
           ELSE LET fill == ShouldGapFill(e, coerced, timestamp)
                    p1 == IF fill
                          THEN QueuePoint(pending, e, IntV(0), MinusSeconds(timestamp, 1), next_id)
                          ELSE pending
                    id == IF fill THEN next_id + 1 ELSE next_id
                    p2 == QueuePoint(p1, e, coerced, timestamp, id)
                IN  /\ sensors' = [sensors EXCEPT ![e] =
                                      [last_value |-> coerced, last_timestamp |-> timestamp]]
                    /\ pending' = p2
                    /\ next_id' = id + 1
                    /\ inflight' = NoteEnqueued(inflight, pending, p2)
                    /\ last' = [op |-> "event",
                                result |-> IF fill THEN "gap_fill" ELSE "queued"]
    /\ UNCHANGED <<sink, unsub_state, unsub_batch, subs, timers, released, api_call,
                   closed, write_api, overlapped, stopped, stop_ok, max_id,
                   fetching, coerce, source, flow, call,
                   influx, buffer>>

StateChange ==
    \E e \in {x \in EventEntities : x \in Entities => ~IsForecast(x)} :
        \E new_state \in IF e \in Entities THEN States \cup {NoState}
                          ELSE {NoState, [state |-> "5", last_updated |-> [s |-> 0, us |-> 0]]} :
            HandleStateChange(e, new_state)

(***************************************************************************)
(* _handle_state_change of a forecast sensor: _queue_forecast_points.      *)
(***************************************************************************)
\* The items a forecast list is made of.
Items ==
    { Dict(("datetime" :> StrV("T40")) @@ ("power" :> IntV(1))),
      Dict(("datetime" :> StrV("")) @@ ("time" :> StrV("T30.5")) @@ ("power" :> IntV(0))),
      Dict(("period_end" :> StrV("T30")) @@ ("power" :> FloatV(5700))),
      Dict(("datetime" :> StrV("garbage")) @@ ("time" :> StrV("T30"))
           @@ ("power" :> IntV(5))),
      Dict(("datetime" :> StrV("T30")) @@ ("power" :> StrV("abc"))),
      Dict(("datetime" :> StrV("T40")) @@ ("power" :> InfV)),
      Dict(("time" :> StrV("T30")) @@ ("temperature" :> IntV(5))),
      Other }

\* The items of the hourly forecast a weather entity answers with.
WeatherItems ==
    { Dict(("datetime" :> StrV("T40")) @@ ("temperature" :> IntV(5))),
      Dict(("datetime" :> StrV("T30.5")) @@ ("temperature" :> StrV("abc"))),
      Dict(("datetime" :> StrV("T30")) @@ ("temperature" :> InfV)),
      Dict(("time" :> StrV("T30")) @@ ("temperature" :> IntV(5))) }

ListsOf(items) == UNION {[1..n -> items] : n \in 0..MaxSlots}

\* state.attributes.get("forecast"): a list of items, or not a list.
Payloads == {Other} \cup {List(items) : items \in ListsOf(Items)}

\* What the get_forecasts service call gives: an exception, a response that
\* is no dict, or a dict by entity id.
BadResponses ==
    {[kind |-> "raise"], Other,
     Dict(("weather.other" :> Dict("forecast" :> List(
         <<Dict(("datetime" :> StrV("T40")) @@ ("temperature" :> IntV(5)))>>)))),
     Dict(("weather.home" :> Other)),
     Dict(("weather.home" :> Dict("other" :> List(<<>>)))),
     Dict(("weather.home" :> Dict("forecast" :> Other)))}

Responses ==
    BadResponses
    \cup {Dict(("weather.home" :> Dict("forecast" :> List(items)))) :
              items \in ListsOf(WeatherItems)}

\* The event source publishes a forecast in the attributes of the forecast
\* sensor's state, or answers the service call of the weather entity with one.
Sources ==
    {[kind |-> "attr", forecast |-> fl] : fl \in Payloads}
    \cup {[kind |-> "weather", response |-> r] : r \in Responses}

\* The new states of a forecast sensor's change event: the state string is a
\* number or "unknown", the attributes hold the forecast the source publishes.
ForecastStates(e) ==
    {NoState}
    \cup (IF source.kind = "attr" /\ ~IsWeatherEntity(e)
          THEN [state : {"5", STATE_UNKNOWN}, forecast : {source.forecast}]
          ELSE IF source.kind = "weather" /\ IsWeatherEntity(e)
          THEN [state : {"5", STATE_UNKNOWN}, forecast : {Other}]
          ELSE {})

\* The rest of _queue_forecast_points once the series is known.
QueueForecast(e, series) ==
    LET st == QueueSeries(OrderSeries(series), 1, e,
                          [pending |-> pending, next_id |-> next_id, order |-> <<>>,
                           raised |-> FALSE])
    IN  /\ pending' = st.pending
        /\ next_id' = st.next_id
        /\ inflight' = NoteEnqueued(inflight, pending, st.pending)
        /\ last' = [op |-> "forecast", result |-> IF st.raised THEN "raised" ELSE "queued",
                    order |-> st.order]

HandleForecastChange(e, new_state) ==
    /\ subs # {}
    /\ next_id <= max_id
    /\ e \in Entities
    /\ IsForecast(e)
    /\ IF new_state = NoState
       THEN /\ UNCHANGED <<pending, next_id, inflight, fetching>>
            /\ last' = [op |-> "forecast", result |-> "rejected", order |-> <<>>]
       ELSE IF IsWeatherEntity(e)
       THEN \* suspended in await self._hass.services.async_call(...)
            /\ fetching[e] < MaxFetching
            /\ fetching' = [fetching EXCEPT ![e] = @ + 1]
            /\ UNCHANGED <<pending, next_id, inflight>>
            /\ last' = [op |-> "forecast", result |-> "fetching", order |-> <<>>]
       ELSE /\ QueueForecast(e, AttributeForecastSeries(new_state.forecast, ValueKey(e)))
            /\ UNCHANGED fetching
    /\ UNCHANGED <<sensors, sink, unsub_state, unsub_batch, subs, timers, released,
                   api_call, closed, write_api, overlapped, stopped, stop_ok, max_id,
                   coerce, source, flow, call,
                   influx, buffer>>

ForecastChange ==
    \E e \in {x \in Entities : IsForecast(x)} :
        \E new_state \in ForecastStates(e) : HandleForecastChange(e, new_state)

\* The service call returns or raises: the handler resumes.
ForecastResponse(e, response) ==
    /\ fetching[e] > 0
    /\ fetching' = [fetching EXCEPT ![e] = @ - 1]
    /\ QueueForecast(e, WeatherTemperatureSeries(response, e))
    /\ UNCHANGED <<sensors, sink, unsub_state, unsub_batch, subs, timers, released,
                   api_call, closed, write_api, overlapped, stopped, stop_ok, max_id,
                   coerce, source, flow, call,
                   influx, buffer>>

ForecastFetched ==
    \E e \in DOMAIN fetching :
        /\ source.kind = "weather"
        /\ ForecastResponse(e, source.response)

(***************************************************************************)
(* The flush timer fires: _flush_batch as a timer callback.                *)
(***************************************************************************)
Tick ==
    /\ timers # {}
    /\ Cardinality(inflight) < MaxInflight
    /\ pending' = FlushPending(pending)
    /\ inflight' = FlushInflight(pending, inflight, "tick")
    /\ last' = [op |-> "tick", began |-> FlushBegins(pending)]
    /\ UNCHANGED <<sensors, next_id, sink, unsub_state, unsub_batch, subs, timers,
                   released, api_call, closed, write_api, overlapped, stopped, stop_ok,
                   max_id, fetching, coerce, source, flow, call,
                   influx, buffer>>

(***************************************************************************)
(* async_stop, called directly or by async_unload_entry.                   *)
(***************************************************************************)
StopBody(origin) ==
    /\ subs' = subs \ {unsub_state}
    /\ timers' = timers \ {unsub_batch}
    /\ released' = [h \in DOMAIN released |->
                       released[h] + (IF h = unsub_state THEN 1 ELSE 0)
                                   + (IF h = unsub_batch THEN 1 ELSE 0)]
    /\ unsub_state' = (IF unsub_state # 0 THEN ClearedHandle(unsub_state) ELSE 0)
    /\ unsub_batch' = (IF unsub_batch # 0 THEN ClearedHandle(unsub_batch) ELSE 0)
    /\ pending' = FlushPending(pending)
    /\ inflight' = FlushInflight(pending, inflight, origin)
    /\ api_call' = StopResume(FlushBegins(pending), origin)
    /\ stopped' = TRUE
    /\ stop_ok' = FALSE
    /\ last' = [op |-> origin, began |-> FlushBegins(pending), after_ok |-> stop_ok,
                released |-> {h \in {unsub_state, unsub_batch} : h # 0}]
    /\ UNCHANGED <<sensors, next_id, sink, overlapped, max_id, fetching, coerce, source, flow, call,
                   influx, buffer>>

Stop ==
    /\ api_call = "none"
    /\ ~closed
    /\ StopBody("stop")
    /\ UNCHANGED <<closed, write_api>>

\* async_unload_entry: await manager.async_stop(), then await client.async_close().
Unload ==
    /\ api_call = "none"
    /\ ~closed
    /\ NextHandle > 1
    /\ StopBody("unload")
    /\ closed' = (api_call' = "none")
    /\ write_api' = (write_api /\ ~closed')

(***************************************************************************)
(* A batched write settles: _flush_batch resumes after its await.          *)
(***************************************************************************)
Settle(f, outcome) ==
    LET err == Classify(outcome)
        ok == err = "none"
        raised == ~ok /\ ~CaughtByFlush(err)
    IN  /\ pending' = (IF ~ok /\ CaughtByFlush(err) THEN Remerge(pending, f.batch)
                       ELSE pending)
        /\ sink' = (IF ok THEN sink \cup {pt.id : pt \in f.points} ELSE sink)
        /\ inflight' = inflight \ {f}
        /\ api_call' = (IF f.origin = api_call THEN "none" ELSE api_call)
        /\ closed' = (closed \/ (f.origin = "unload" /\ ~raised))
        /\ write_api' = ((write_api \/ outcome \notin ConnectOutcomes) /\ ~closed')
        /\ stop_ok' = (IF f.origin \in {"stop", "unload"} THEN ok ELSE stop_ok)
        /\ last' = [op |-> "settle", ok |-> ok, raised |-> raised, f |-> f]
        /\ UNCHANGED <<sensors, next_id, unsub_state, unsub_batch, subs, timers,
                       released, overlapped, stopped, max_id, fetching, coerce, source, flow, call,
                   influx, buffer>>

WriteSettles ==
    \E f \in inflight : \E outcome \in OutcomesOf(f.connects) : Settle(f, outcome)

Next ==
    \/ StartFresh
    \/ StateChange
    \/ Tick
    \/ Stop
    \/ Unload
    \/ WriteSettles

Spec == Init /\ [][Next]_vars

(***************************************************************************)
(* Any sequence of async_start and async_stop calls on one manager: a      *)
(* start after a stop, and a start while the handles of an earlier start   *)
(* are held (the manager has no guard against it).                         *)
(***************************************************************************)
Restart ==
    /\ NextHandle > 1
    /\ NextHandle < 2 * MaxStarts
    /\ unsub_state = 0
    /\ unsub_batch = 0
    /\ \E cur \in CurrentStates : Start(cur)

StartAgain ==
    /\ NextHandle < 2 * MaxStarts
    /\ (unsub_state # 0 \/ unsub_batch # 0)
    /\ \E cur \in CurrentStates : Start(cur)

InitAny == InitWith(MaxPointsAny, {"sensor.house_power"}, NoSource)

NextAny ==
    \/ Next
    \/ Restart
    \/ StartAgain

SpecAny == InitAny /\ [][NextAny]_vars

(***************************************************************************)
(* A manager that is started and never stopped.  The interval timer keeps  *)
(* firing while it is armed and every batched write that was awaited       *)
(* settles, with whatever outcome.                                         *)
(***************************************************************************)
InitLive == InitWith(MaxPointsLive, {"sensor.house_power"}, NoSource)

NextLive ==
    \/ StartFresh
    \/ StateChange
    \/ Tick
    \/ WriteSettles

Fairness ==
    /\ WF_vars(Tick)
    /\ WF_vars(WriteSettles)

SpecLive == InitLive /\ [][NextLive]_vars /\ Fairness

(***************************************************************************)
(* A manager with a current-value sensor and two forecast sensors, one     *)
(* read from the state's attributes and one fetched by service call.       *)
(***************************************************************************)
InitForecast == \E src \in Sources : InitWith(MaxPointsFc, AllEntities, src)

NextForecast ==
    \/ StartFresh
    \/ ForecastChange
    \/ ForecastFetched
    \/ WriteSettles

SpecForecast == InitForecast /\ [][NextForecast]_vars

(***************************************************************************)
(* The change events of a current-value sensor and of a forecast sensor    *)
(* that publishes its forecast in its attributes, with no timer tick.      *)
(***************************************************************************)
\* Forecasts the sensor publishes: none, one slot, two slots.
PublishedForecasts ==
    {Other,
     List(<<Dict(("datetime" :> StrV("T40")) @@ ("power" :> IntV(1)))>>),
     List(<<Dict(("datetime" :> StrV("T40")) @@ ("power" :> IntV(1))),
            Dict(("period_end" :> StrV("T30")) @@ ("power" :> FloatV(5700)))>>)}

InitEvents ==
    \E fl \in PublishedForecasts :
        InitWith(MaxPointsEv, {"sensor.house_power", "sensor.pv_forecast"},
                 [kind |-> "attr", forecast |-> fl])

NextEvents ==
    \/ StartFresh
    \/ StateChange
    \/ ForecastChange

SpecEvents == InitEvents /\ [][NextEvents]_vars

(***************************************************************************)
(* _coerce_value on its own: every raw value with every declared type.     *)
(***************************************************************************)
RawValues ==
    {NoneV, OtherV, InfV, NaNV, FloatV(0)}
    \cup {FloatV(m) : m \in {4500, 5300, 5500, 5700}}
    \cup {IntV(n) : n \in {0, 1, 5}}
    \cup {BoolV(b) : b \in BOOLEAN}
    \cup {StrV(x) : x \in {"0", "1", "5", "5.7", "inf", "nan", "abc", "on", "ON", "OFF",
                            "Yes", "True", "false", "no", ""}}

DataTypes == {"int", "float", "string", "bool", "unknown"}

ManagerIdle ==
    UNCHANGED <<sensors, pending, next_id, max_id, inflight, sink, unsub_state,
                unsub_batch, subs, timers, released, api_call, closed, write_api,
                fetching, source, overlapped, stopped, stop_ok>>

(***************************************************************************)
(* The static helpers _state_to_value and _state_to_timestamp, each called *)
(* on a state and returning.                                               *)
(***************************************************************************)
RawStrings ==
    {"0", "5", "05", "+5", "5.7", "inf", "nan", "on", "ON", "True", "OFF", "false",
     "abc", "", "unknown", "unavailable"}

ValueStates ==
    {NoState} \cup [state : RawStrings, last_updated : {[s |-> 0, us |-> 0]}]

AttrValues ==
    {NumA(17), NumA(17000), NumA(MillisThreshold), NaNA, StrV("T30"), StrV("abc"),
     OtherV, DatetimeA([s |-> 40, us |-> 0])}

KeySets ==
    {K \in SUBSET {TIME_KEYS[i] : i \in 1..Len(TIME_KEYS)} : Cardinality(K) <= MaxAttrs}

AttrDicts == UNION {[K -> AttrValues] : K \in KeySets}

TimeStates ==
    {NoState}
    \cup [state : {"5"}, last_updated : {[s |-> 0, us |-> 500000]}, attributes : AttrDicts]

CallStateToValue ==
    \E state \in ValueStates :
        /\ call.fn = "none"
        /\ call' = [fn |-> "state_to_value", state |-> state, done |-> FALSE]
        /\ last' = [op |-> "static_call"]
        /\ UNCHANGED <<coerce, flow, influx, buffer>>
        /\ ManagerIdle

CallStateToTimestamp ==
    \E state \in TimeStates :
        /\ call.fn = "none"
        /\ call' = [fn |-> "state_to_timestamp", state |-> state, done |-> FALSE]
        /\ last' = [op |-> "static_call"]
        /\ UNCHANGED <<coerce, flow, influx, buffer>>
        /\ ManagerIdle

ReturnStatic ==
    /\ ~call.done
    /\ call' = [fn |-> call.fn, state |-> call.state, done |-> TRUE,
                result |-> IF call.fn = "state_to_value" THEN StateToValue(call.state)
                           ELSE StateToTimestamp(call.state)]
    /\ last' = [op |-> "static_return"]
    /\ UNCHANGED <<coerce, flow, influx, buffer>>
    /\ ManagerIdle

\* The caller drops the result.
ForgetStatic ==
    /\ call.done
    /\ call.fn # "none"
    /\ call' = NoStatic
    /\ last' = [op |-> "static_forget"]
    /\ UNCHANGED <<coerce, flow, influx, buffer>>
    /\ ManagerIdle

InitStatic == InitWith(MaxPoints, {"sensor.house_power"}, NoSource)

NextStatic ==
    \/ CallStateToValue
    \/ CallStateToTimestamp
    \/ ReturnStatic
    \/ ForgetStatic

SpecStatic == InitStatic /\ [][NextStatic]_vars

InitCoerce == InitWith(MaxPoints, {"sensor.house_power"}, NoSource)

CallCoerce ==
    \E value \in RawValues, data_type \in DataTypes :
        /\ coerce.done
        /\ coerce' = [value |-> value, data_type |-> data_type, result |-> NoneV,
                      done |-> FALSE]
        /\ last' = [op |-> "coerce_call"]
        /\ UNCHANGED <<flow, call, influx, buffer>>
        /\ ManagerIdle

ReturnCoerce ==
    /\ ~coerce.done
    /\ coerce' = [coerce EXCEPT !.result = CoerceValue(coerce.value, coerce.data_type),
                                !.done = TRUE]
    /\ last' = [op |-> "coerce_return"]
    /\ UNCHANGED <<flow, call, influx, buffer>>
    /\ ManagerIdle

NextCoerce ==
    \/ CallCoerce
    \/ ReturnCoerce

SpecCoerce == InitCoerce /\ [][NextCoerce]_vars

(***************************************************************************)
(* SolectrusConfigFlow: async_step_user and async_step_reconfigure.  A     *)
(* step that was given input builds a temporary client, awaits             *)
(* async_validate_connection, and awaits client.async_close() on its way   *)
(* out.                                                                    *)
(***************************************************************************)
NoInput == [url |-> "", bucket |-> ""]
FlowInputs == [url : {"http://a", "https://b"}, bucket : {"solectrus"}]
NoEntry == <<>>

\* f"{user_input[CONF_URL]}::{user_input[CONF_BUCKET]}"
UniqueId(user_input) == <<user_input.url, user_input.bucket>>
EntryIds == {UniqueId(i) : i \in FlowInputs}

\* What async_validate_connection meets: building the client, the bucket
\* lookup, and an exception of no class it names.
ValidateOutcomes ==
    {"ok", "api_401", "api_403", "api_other", "http_or_os_error", "bucket_none",
     "unexpected"} \cup ConnectOutcomes

\* The exception async_validate_connection leaves with ("none": it returns).
ClassifyValidate(outcome) ==
    IF outcome = "ok" THEN "none"
    ELSE IF outcome \in {"api_401", "api_403"} THEN "SolectrusAuthError"
    ELSE IF outcome \in {"api_other", "bucket_none"} THEN "SolectrusInfluxError"
    ELSE IF outcome = "connect_value_or_type_error" THEN "SolectrusInfluxError"
    ELSE IF outcome = "unexpected" THEN "Exception"
    ELSE "SolectrusConnectionError"

\* _ensure_client stored the InfluxDBClient in self._client.
ClientBuilt(outcome) == outcome \notin ConnectOutcomes

\* Only the errors of the sink adapter are handled.
CaughtByStep_InfluxOnly(cls) == IsSolectrusInfluxError(cls)

\* except SolectrusInfluxError / except Exception
CaughtByStep(cls) == IsSolectrusInfluxError(cls) \/ cls = "Exception"

\* errors["base"]
StepError(cls) == IF IsSolectrusInfluxError(cls) THEN "cannot_connect" ELSE "unknown"

\* async_close: self._client = None, and the client that was built is closed.
CloseClient(client) == IF client = "open" THEN "closed" ELSE client

ShowForm(kind, error) == [type |-> "form", step_id |-> kind, error |-> error]
Abort(reason) == [type |-> "abort", reason |-> reason]
CreateEntry(user_input) == [type |-> "create_entry", data |-> user_input]
Raise(cls) == [type |-> "raise", exc |-> cls]

\* The try statement of a step once async_validate_connection has settled.
StepResult(kind, user_input, cls, entries) ==
    IF cls = "none"
    THEN IF kind = "reconfigure" THEN Abort("reconfigure_successful")
         ELSE IF UniqueId(user_input) \in DOMAIN entries THEN Abort("already_configured")
         ELSE CreateEntry(user_input)
    ELSE IF CaughtByStep(cls) THEN ShowForm(kind, StepError(cls))
    ELSE Raise(cls)

\* A step is called: with no input it shows the form, with input it builds
\* the client and awaits the validation.
FlowBegin(kind, user_input, entry_id) ==
    /\ flow.step \in {"idle", "returned"}
    /\ kind = "user" => entry_id = NoEntry
    /\ flow' =
          IF kind = "reconfigure" /\ entry_id \notin DOMAIN flow.entries
          THEN [step |-> "returned", kind |-> kind, input |-> user_input,
                entry |-> entry_id, client |-> "none", outcome |-> "none",
                result |-> Abort("unknown"), entries |-> flow.entries]
          ELSE IF user_input = NoInput
          THEN [step |-> "returned", kind |-> kind, input |-> user_input,
                entry |-> entry_id, client |-> "none", outcome |-> "none",
                result |-> ShowForm(kind, "none"), entries |-> flow.entries]
          ELSE [step |-> "validating", kind |-> kind, input |-> user_input,
                entry |-> entry_id, client |-> "new", outcome |-> "none",
                result |-> Abort("none"), entries |-> flow.entries]
    /\ last' = [op |-> "flow_begin"]
    /\ UNCHANGED <<coerce, call, influx, buffer>>
    /\ ManagerIdle

FlowStep ==
    \E kind \in {"user", "reconfigure"}, user_input \in FlowInputs \cup {NoInput},
       entry_id \in EntryIds \cup {NoEntry} :
        FlowBegin(kind, user_input, entry_id)

\* async_validate_connection settles; the step runs its except or else
\* clause (async_update_reload_and_abort updates the entry at once) and
\* reaches the await of its finally clause.
FlowValidated(outcome) ==
    LET cls == ClassifyValidate(outcome)
        result == StepResult(flow.kind, flow.input, cls, flow.entries)
    IN  /\ flow.step = "validating"
        /\ flow' = [flow EXCEPT
                       !.step = "closing",
                       !.outcome = outcome,
                       !.client = IF ClientBuilt(outcome) THEN "open" ELSE "new",
                       !.result = result,
                       !.entries = IF result = Abort("reconfigure_successful")
                                   THEN [flow.entries EXCEPT ![flow.entry] = flow.input]
                                   ELSE flow.entries]
        /\ last' = [op |-> "flow_validated"]
        /\ UNCHANGED <<coerce, call, influx, buffer>>
        /\ ManagerIdle

ValidationSettles == \E outcome \in ValidateOutcomes : FlowValidated(outcome)

\* client.async_close() is done and the step returns; the flow manager
\* creates the entry a create_entry result asks for.
FlowReturns ==
    /\ flow.step = "closing"
    /\ flow' = [flow EXCEPT
                   !.step = "returned",
                   !.client = CloseClient(flow.client),
                   !.entries = IF flow.result.type = "create_entry"
                               THEN (UniqueId(flow.result.data) :> flow.result.data)
                                    @@ flow.entries
                               ELSE flow.entries]
    /\ last' = [op |-> "flow_returns"]
    /\ UNCHANGED <<coerce, call, influx, buffer>>
    /\ ManagerIdle

InitFlow == InitWith(MaxPoints, {"sensor.house_power"}, NoSource)

NextFlow ==
    \/ FlowStep
    \/ ValidationSettles
    \/ FlowReturns

SpecFlow == InitFlow /\ [][NextFlow]_vars

(***************************************************************************)
(* SolectrusInfluxClient on its own: async_write_batch,                    *)
(* async_validate_connection and async_close called by coroutines that     *)
(* interleave at the awaits of run_in_executor.  Clients are numbered in   *)
(* the order they are built; a write API is named by the client it belongs *)
(* to.  built and apis count the objects created since async_close was     *)
(* last called; created and shut are the clients ever built and closed.    *)
(***************************************************************************)
FreeCalls == {n \in 1..MaxCalls : \A t \in influx.tasks : t.n # n}

\* The coroutine n running op waits in the executor at `at', holding client c.
Suspend(x, n, op, at, c) ==
    [x EXCEPT !.tasks = @ \cup {[n |-> n, op |-> op, at |-> at, client |-> c]}]

\* What the caller of _ensure_client does with the client it got:
\* async_validate_connection looks the bucket up, async_connect creates the
\* write API unless there is one, and async_write_batch then writes.
AfterEnsure(x, n, op, c) ==
    IF op = "validate" THEN Suspend(x, n, op, "find_bucket", c)
    ELSE IF x.write_api = 0 THEN Suspend(x, n, op, "write_api", c)
    ELSE Suspend(x, n, op, "write", c)

\* _ensure_client: the client at once if there is one, else build one in
\* the executor.
EnsureClient(x, n, op) ==
    IF x.client # 0 THEN AfterEnsure(x, n, op, x.client)
    ELSE Suspend(x, n, op, "build", 0)

\* async_write_batch with a non-empty list of points, up to its first await.
AsyncWriteBatch ==
    \E n \in FreeCalls :
        /\ n = CHOOSE m \in FreeCalls : \A k \in FreeCalls : m <= k
        /\ influx' = (IF influx.write_api # 0
                      THEN Suspend(influx, n, "write", "write", influx.client)
                      ELSE EnsureClient(influx, n, "write"))
        /\ last' = [op |-> "write_batch"]
        /\ UNCHANGED <<coerce, flow, call, buffer>>
        /\ ManagerIdle

\* async_validate_connection up to its first await.
AsyncValidateConnection ==
    \E n \in FreeCalls :
        /\ n = CHOOSE m \in FreeCalls : \A k \in FreeCalls : m <= k
        /\ influx' = EnsureClient(influx, n, "validate")
        /\ last' = [op |-> "validate"]
        /\ UNCHANGED <<coerce, flow, call, buffer>>
        /\ ManagerIdle

\* The executor has run _build_client: the new client is stored in _client
\* and returned, or the constructor's error is raised as a SolectrusInfluxError.
BuildSettles ==
    \E t \in influx.tasks : \E outcome \in {"ok"} \cup ConnectOutcomes :
        /\ t.at = "build"
        /\ outcome = "ok" => influx.next_client <= MaxClients
        /\ LET c == influx.next_client
               rest == [influx EXCEPT !.tasks = @ \ {t}]
               stored == [rest EXCEPT !.client = c,
                                      !.next_client = c + 1,
                                      !.built = @ + 1,
                                      !.created = @ \cup {c}]
           IN  influx' = (IF outcome = "ok"
                          THEN AfterEnsure(stored, t.n, t.op, c)
                          ELSE rest)
        /\ last' = [op |-> "build", raised |-> Classify(outcome)]
        /\ UNCHANGED <<coerce, flow, call, buffer>>
        /\ ManagerIdle

\* The executor has created the write API of the client async_connect got:
\* it is stored in _write_api and async_write_batch goes on to write.
WriteApiSettles ==
    \E t \in influx.tasks :
        /\ t.at = "write_api"
        /\ influx' = Suspend([influx EXCEPT !.tasks = @ \ {t},
                                            !.write_api = t.client,
                                            !.apis = @ + 1],
                             t.n, t.op, "write", t.client)
        /\ last' = [op |-> "write_api"]
        /\ UNCHANGED <<coerce, flow, call, buffer>>
        /\ ManagerIdle

\* The executor has run the write: async_write_batch returns or raises.  The
\* lambda reads _write_api when it runs, so after an async_close it may
\* find None there.
WriteReturns ==
    \E t \in influx.tasks :
        \E outcome \in WriteOutcomes \cup (IF influx.write_api = 0
                                            THEN {"attribute_error"} ELSE {}) :
            /\ t.at = "write"
            /\ influx' = [influx EXCEPT !.tasks = @ \ {t}]
            /\ last' = [op |-> "write_returns",
                        raised |-> IF outcome = "attribute_error" THEN "AttributeError"
                                   ELSE Classify(outcome)]
            /\ UNCHANGED <<coerce, flow, call, buffer>>
            /\ ManagerIdle

\* The executor has looked the bucket up: async_validate_connection returns
\* or raises.
ValidateReturns ==
    \E t \in influx.tasks :
        \E outcome \in ValidateOutcomes \ ConnectOutcomes :
            /\ t.at = "find_bucket"
            /\ influx' = [influx EXCEPT !.tasks = @ \ {t}]
            /\ last' = [op |-> "validate_returns", raised |-> ClassifyValidate(outcome)]
            /\ UNCHANGED <<coerce, flow, call, buffer>>
            /\ ManagerIdle

\* async_close up to its await: both fields are cleared; with no client
\* there is nothing to close and it returns at once.
AsyncClose ==
    \E n \in FreeCalls :
        /\ n = CHOOSE m \in FreeCalls : \A k \in FreeCalls : m <= k
        /\ LET cleared == [influx EXCEPT !.client = 0, !.write_api = 0,
                                         !.built = 0, !.apis = 0]
           IN  influx' = (IF influx.client = 0 THEN cleared
                          ELSE Suspend(cleared, n, "close", "close", influx.client))
        /\ last' = [op |-> "close", returned |-> influx.client = 0]
        /\ UNCHANGED <<coerce, flow, call, buffer>>
        /\ ManagerIdle

\* The executor has closed the client: async_close returns.
CloseSettles ==
    \E t \in influx.tasks :
        /\ t.at = "close"
        /\ influx' = [influx EXCEPT !.tasks = @ \ {t}, !.shut = @ \cup {t.client}]
        /\ last' = [op |-> "close_returns"]
        /\ UNCHANGED <<coerce, flow, call, buffer>>
        /\ ManagerIdle

NextClient ==
    \/ AsyncWriteBatch
    \/ AsyncValidateConnection
    \/ BuildSettles
    \/ WriteApiSettles
    \/ WriteReturns
    \/ ValidateReturns
    \/ AsyncClose
    \/ CloseSettles

SpecClient == Init /\ [][NextClient]_vars

(***************************************************************************)
(* SensorBuffer: a deque of (timestamp, value) items, oldest at the left.  *)
(* An item is named by the order in which it was enqueued (id); the value  *)
(* plays no part in the buffer's decisions.  written counts, for each id,  *)
(* the calls of write_fn on the item that returned; held counts the flush  *)
(* coroutines suspended in write_fn on the item they read from the left.   *)
(***************************************************************************)
max_age == 2
max_points == 2

\* The timestamps and the values of `now' that callers pass.
BufferTimes == {0, 1, 3}

RECURSIVE Prune(_, _)
\* prune: pop from the left while the leftmost item is older than the cutoff.
Prune(items, now) ==
    IF items # <<>> /\ items[1].ts < now - max_age
    THEN Prune(Tail(items), now)
    ELSE items

RECURSIVE Trim_Newest(_)
\* Trimming that pops from the right end.
Trim_Newest(items) ==
    IF Len(items) > max_points
    THEN Trim_Newest(SubSeq(items, 1, Len(items) - 1))
    ELSE items

RECURSIVE Trim(_)
\* The loop of enqueue: pop from the left while more than max_points items.
Trim(items) ==
    IF Len(items) > max_points THEN Trim(Tail(items)) ELSE items

\* enqueue(value, timestamp)
EnqueueAt(ts) ==
    /\ buffer.next <= MaxEnqueued
    /\ LET pruned == Prune(buffer.items, ts)
           item == [id |-> buffer.next, ts |-> ts]
       IN  /\ buffer' = [buffer EXCEPT !.items = Trim(Append(pruned, item)),
                                       !.next = @ + 1,
                                       !.written = Append(@, 0),
                                       !.held = Append(@, 0)]
           /\ last' = [op |-> "enqueue", trimmed |-> Len(pruned) + 1 > max_points]
    /\ UNCHANGED <<coerce, flow, call, influx>>
    /\ ManagerIdle

\* prune(now), called on its own.
PruneAt(now) ==
    /\ buffer.items # <<>>
    /\ buffer' = [buffer EXCEPT !.items = Prune(@, now)]
    /\ last' = [op |-> "prune"]
    /\ UNCHANGED <<coerce, flow, call, influx>>
    /\ ManagerIdle

\* The flush coroutines suspended in write_fn.
Flushing == {id \in 1..Len(buffer.held) : buffer.held[id] > 0}
RECURSIVE SumHeld(_)
SumHeld(id) == IF id = 0 THEN 0 ELSE buffer.held[id] + SumHeld(id - 1)

\* flush(write_fn, now, error_types) up to its first await: True at once on
\* an empty buffer, else prune and write the leftmost item.
FlushAt(now) ==
    /\ SumHeld(Len(buffer.held)) < MaxFlushes
    /\ LET pruned == IF buffer.items = <<>> THEN <<>> ELSE Prune(buffer.items, now)
       IN  IF pruned = <<>>
           THEN /\ buffer' = [buffer EXCEPT !.items = <<>>]
                /\ last' = [op |-> "flush_returns", result |-> TRUE]
           ELSE /\ buffer' = [buffer EXCEPT !.items = pruned,
                                            !.held[pruned[1].id] = @ + 1]
                /\ last' = [op |-> "flush"]
    /\ UNCHANGED <<coerce, flow, call, influx>>
    /\ ManagerIdle

\* write_fn has settled for a flush that read the item id: it returned
\* ("ok"), raised one of error_types ("error") or something else.  When it
\* returned, the leftmost item is popped (IndexError on an empty deque) and
\* the loop goes on with the item that is leftmost now; when it raised one
\* of error_types, flush returns False; any other exception leaves flush.
WriteFnSettlesFor(id, outcome) ==
    LET resumed == [buffer.held EXCEPT ![id] = @ - 1]
        counted == [buffer.written EXCEPT ![id] = IF @ < 2 THEN @ + 1 ELSE @]
        left == Tail(buffer.items)
    IN  /\ id \in Flushing
        /\ IF outcome = "error"
           THEN /\ buffer' = [buffer EXCEPT !.held = resumed]
                /\ last' = [op |-> "flush_returns", result |-> FALSE]
           ELSE IF outcome = "other"
           THEN /\ buffer' = [buffer EXCEPT !.held = resumed]
                /\ last' = [op |-> "flush_raises", exc |-> "other"]
           ELSE IF buffer.items = <<>>
           THEN /\ buffer' = [buffer EXCEPT !.held = resumed, !.written = counted]
                /\ last' = [op |-> "flush_raises", exc |-> "IndexError"]
           ELSE IF left = <<>>
           THEN /\ buffer' = [buffer EXCEPT !.items = left, !.held = resumed,
                                            !.written = counted]
                /\ last' = [op |-> "flush_returns", result |-> TRUE]
           ELSE /\ buffer' = [buffer EXCEPT
                                 !.items = left,
                                 !.written = counted,
                                 !.held = [resumed EXCEPT ![left[1].id] = @ + 1]]
                /\ last' = [op |-> "flush_wrote"]
        /\ UNCHANGED <<coerce, flow, call, influx>>
        /\ ManagerIdle

NextBuffer ==
    \/ \E ts \in BufferTimes : EnqueueAt(ts)
    \/ \E now \in BufferTimes : PruneAt(now)
    \/ \E now \in BufferTimes : FlushAt(now)
    \/ \E id \in 1..MaxEnqueued : \E outcome \in {"ok", "error", "other"} :
           WriteFnSettlesFor(id, outcome)

SpecBuffer == Init /\ [][NextBuffer]_vars

(***************************************************************************)
(* Properties.                                                             *)
(***************************************************************************)
SettledFailed == last.op = "settle" /\ ~last.ok

\* C1: after a flush whose batched write failed has settled, every key of the
\* failed batch is in the pending map again, and it carries the failed batch's
\* point whenever no point was enqueued under that key since the swap.
C1_FailedBatchReappears ==
    SettledFailed =>
        \A k \in DOMAIN last.f.batch :
            /\ k \in DOMAIN pending
            /\ (k \notin DOMAIN last.f.newer => pending[k].id = last.f.batch[k].id)

\* C2: with one flush in flight, a key of the failed batch under which a point
\* was enqueued during the write holds the newest of those points afterwards,
\* and the stale point of the batch is no longer in the pending map.
C2_NewerPointWins ==
    (SettledFailed /\ last.f.alone) =>
        \A k \in DOMAIN last.f.batch \cap DOMAIN last.f.newer :
            /\ k \in DOMAIN pending
            /\ pending[k].id = last.f.newer[k]
            /\ last.f.batch[k].id \notin PendingIds

C2_Witness ==
    /\ SettledFailed
    /\ last.f.alone
    /\ DOMAIN last.f.batch \cap DOMAIN last.f.newer # {}

\* C3: a point enqueued while a write is in flight goes into the live pending
\* map and into no batch in flight; the settling of a write, accepted or
\* failed, removes or replaces no entry of the live map; and the next flush
\* that begins takes every entry of the live map.
C3_EnqueuedDuringFlushKept ==
    [][ /\ (last'.op = "settle") =>
               \A k \in DOMAIN pending :
                   k \in DOMAIN pending' /\ pending'[k] = pending[k]
        /\ (last'.op = "event" /\ inflight # {}) =>
               /\ {f.batch : f \in inflight'} = {f.batch : f \in inflight}
               /\ \A id \in next_id..(next_id' - 1) : id \in Ids(pending')
        /\ \A g \in inflight' :
               (g.batch \notin {f.batch : f \in inflight}) =>
                   \A k \in DOMAIN pending :
                       /\ k \in DOMAIN g.batch
                       /\ (g.batch[k] = pending[k] \/ g.batch[k].id >= next_id)
      ]_vars

C3_Witness ==
    /\ SettledFailed
    /\ \E k \in DOMAIN last.f.newer :
           k \in DOMAIN pending /\ pending[k].id = last.f.newer[k]
    /\ \E k \in DOMAIN last.f.batch :
           k \in DOMAIN pending /\ pending[k].id = last.f.batch[k].id

\* C4: the batches of two flushes in flight at the same time have no
\* PendingPoint in common.
C4_BatchesDisjoint ==
    \A f, g \in inflight : f # g => Ids(f.batch) \cap Ids(g.batch) = {}

C4_Witness ==
    \E f, g \in inflight : f # g /\ g.origin = "tick" /\ ~g.alone /\ g.newer = EmptyMap

\* C5: a change event of a sensor whose coerced value and timestamp equal the
\* sensor's last recorded pair changes neither the pending map nor any
\* sensor's last value and timestamp, and allocates no point.
C5_DuplicateSuppressed ==
    [][ \A e \in Entities, s \in States :
            LET v == CoerceValue(StateToValue(s), SENSOR_DEFINITIONS[e].data_type)
            IN  (/\ HandleStateChange(e, s)
                 /\ v # NoneV
                 /\ PyEq(v, sensors[e].last_value)
                 /\ s.last_updated.s = sensors[e].last_timestamp.s)
                => (pending' = pending /\ sensors' = sensors /\ next_id' = next_id)
      ]_vars

C5_Witness ==
    /\ last.op = "event"
    /\ last.result = "suppressed"
    /\ DOMAIN pending = {}
    /\ sink # {}

\* C6: an accepted change event with value v at time t enqueues the point
\* (v, t); it enqueues the extra point (0, t - 1) before it exactly when the
\* last recorded value is numeric zero, v is numeric and positive, and t is at
\* least 30 seconds after the last recorded timestamp.
C6_GapFillExactly ==
    [][ \A e \in Entities, s \in States :
            LET v == CoerceValue(StateToValue(s), SENSOR_DEFINITIONS[e].data_type)
                t == [s |-> s.last_updated.s, us |-> 0]
                prev == sensors[e]
                accepted == /\ v # NoneV
                            /\ ~IsRaised(v)
                            /\ ~(PyEq(v, prev.last_value) /\ t = prev.last_timestamp)
                fill == /\ prev.last_timestamp # NoTime
                        /\ IsNumber(prev.last_value)
                        /\ Num(prev.last_value) = 0
                        /\ IsNumber(v)
                        /\ Num(v) > 0
                        /\ t.s - prev.last_timestamp.s >= 30
                real == PendingKey(e, t)
                before == [s |-> t.s - 1, us |-> 0]
                zero == PendingKey(e, before)
            IN  (HandleStateChange(e, s) /\ accepted) =>
                    /\ real \in DOMAIN pending'
                    /\ pending'[real] = [sensor |-> e, value |-> v, timestamp |-> t,
                                         id |-> next_id' - 1]
                    /\ fill => /\ next_id' = next_id + 2
                               /\ DOMAIN pending' = DOMAIN pending \cup {real, zero}
                               /\ pending'[zero] = [sensor |-> e, value |-> IntV(0),
                                                    timestamp |-> before, id |-> next_id]
                    /\ ~fill => /\ next_id' = next_id + 1
                                /\ DOMAIN pending' = DOMAIN pending \cup {real}
                                /\ \A k \in DOMAIN pending \ {real} :
                                       pending'[k] = pending[k]
      ]_vars

C6_Witness ==
    /\ last.op = "event"
    /\ last.result = "gap_fill"
    /\ \E k \in DOMAIN pending :
           /\ pending[k].value = IntV(0)
           /\ pending[k].id = next_id - 2
           /\ <<k[1], [k[2] EXCEPT !.s = @ + 1]>> \in DOMAIN pending

\* C7: when the sink accepts the final write of stop(), on return of stop()
\* every point of that write is in the sink and the pending map is empty.
C7_StopDrains ==
    (last.op = "settle" /\ last.ok /\ last.f.origin \in {"stop", "unload"}) =>
        /\ Ids(last.f.batch) \subseteq sink
        /\ DOMAIN pending = {}

\* C8: stop() stays suspended while the final flush it started is in flight,
\* and the client is closed by the unload only once that flush has settled.
C8_StopAwaitsFinalFlush ==
    /\ \A f \in inflight : f.origin \in {"stop", "unload"} => api_call = f.origin
    /\ closed => \A f \in inflight : f.origin # "unload"

C8_Witness ==
    /\ closed
    /\ last.op = "settle"
    /\ last.f.origin = "unload"

\* C9: a stop() called after a stop() whose final write was accepted releases
\* no handle and starts no write.
C9_SecondStopNoWrite ==
    (last.op \in {"stop", "unload"} /\ last.after_ok) =>
        /\ ~last.began
        /\ last.released = {}

NewFlushes == {g \in inflight' : g.batch \notin {f.batch : f \in inflight}}

\* The write request built for one pending item.
PointOf(item) ==
    [measurement |-> SENSOR_DEFINITIONS[item.sensor].measurement,
     field |-> SENSOR_DEFINITIONS[item.sensor].field,
     value |-> item.value,
     time |-> item.timestamp.s,
     id |-> item.id]

\* C12: a flush that finds the pending map non-empty starts exactly one
\* batched write, carrying exactly one point (measurement, field, value,
\* whole-second time) per entry swapped out, and leaves the pending map empty;
\* a flush that finds it empty starts no write and changes nothing; when a
\* write is accepted none of its points is in the pending map, and no point
\* the sink holds is ever in the pending map.
C12_OneWritePerFlush ==
    [][ /\ (last'.op \in {"tick", "stop", "unload"} /\ DOMAIN pending # {}) =>
               /\ Cardinality(NewFlushes) = 1
               /\ DOMAIN pending' = {}
               /\ \A g \in NewFlushes :
                      /\ g.points = {PointOf(pending[k]) : k \in DOMAIN pending}
                      /\ Cardinality(g.points) = Cardinality(DOMAIN pending)
                      /\ \A k \in DOMAIN pending : pending[k].timestamp.us = 0
        /\ (last'.op \in {"tick", "stop", "unload"} /\ DOMAIN pending = {}) =>
               /\ NewFlushes = {}
               /\ inflight' = inflight
               /\ UNCHANGED <<pending, sink, sensors, next_id>>
        /\ (last'.op = "start" /\ ~last'.raised) =>
               /\ DOMAIN pending' = {}
               /\ Cardinality(NewFlushes) =
                      (IF DOMAIN pending # {} \/ last'.queued > 0 THEN 1 ELSE 0)
               /\ \A g \in NewFlushes :
                      /\ Cardinality(g.points) = Cardinality(DOMAIN g.batch)
                      /\ g.points = {PointOf(g.batch[k]) : k \in DOMAIN g.batch}
                      /\ \A k \in DOMAIN pending : g.batch[k] = pending[k]
        /\ (last'.op = "settle" /\ last'.ok) =>
               /\ Ids(last'.f.batch) \cap Ids(pending') = {}
               /\ Ids(last'.f.batch) \subseteq sink'
        /\ sink' \cap Ids(pending') = {}
      ]_vars

C12_Witness ==
    /\ last.op = "tick"
    /\ last.began
    /\ \E f \in inflight : f.origin = "tick" /\ Cardinality(f.points) = 2
    /\ sink # {}

\* C13: a flush whose batched write, or the connection it opens first, fails
\* with any failure class of the sink adapter ends without an exception
\* leaving it, whoever started it, and leaves the subscription, the timer and
\* their handles as they were.
C13_SinkFailureNotFatal ==
    [][ (last'.op = "settle" /\ ~last'.ok) =>
            /\ ~last'.raised
            /\ UNCHANGED <<subs, timers, unsub_state, unsub_batch, sensors, sink>>
            /\ \A k \in DOMAIN pending : k \in DOMAIN pending'
      ]_vars

\* The start-up flush failed in its connection, and the manager is running.
C13_Witness ==
    /\ SettledFailed
    /\ last.f.origin = "start"
    /\ last.f.connects
    /\ ~write_api
    /\ subs # {}
    /\ timers # {}
    /\ Ids(last.f.batch) \subseteq PendingIds

\* C16: _coerce_value returns a coerced value or None for every raw value and
\* every declared type, and never raises.
C16_CoercionTotal ==
    (coerce.done /\ last.op = "coerce_return") => ~IsRaised(coerce.result)

\* C11: start() records last value and timestamp of every configured
\* non-forecast sensor whose current state is present and coercible and
\* enqueues exactly one point for it; forecast sensors and sensors whose state
\* is absent or uncoercible contribute nothing; start() then subscribes, arms
\* the timer and flushes once, and does not return before that write has
\* settled, so an accepted write has every start-up point in the sink when
\* start() returns.
C11_StartQueuesAndFlushes ==
    [][ /\ (last'.op = "start") =>
            \A cur \in CurrentStates :
                LET v(e) == CoerceValue(StateToValue(cur[e]), SENSOR_DEFINITIONS[e].data_type)
                    t(e) == [s |-> cur[e].last_updated.s, us |-> 0]
                    good == {e \in Entities :
                                /\ ~IsForecast(e)
                                /\ StateToValue(cur[e]) # NoneV
                                /\ v(e) # NoneV
                                /\ ~IsRaised(v(e))}
                IN  Start(cur) =>
                        /\ \A e \in good :
                               sensors'[e] = [last_value |-> v(e), last_timestamp |-> t(e)]
                        /\ \A e \in Entities \ good : sensors'[e] = sensors[e]
                        /\ next_id' = next_id + Cardinality(good)
                        /\ unsub_state' # 0
                        /\ unsub_state' \in subs' \ subs
                        /\ unsub_batch' # 0
                        /\ unsub_batch' \in timers' \ timers
                        /\ DOMAIN pending' = {}
                        /\ IF good = {} /\ DOMAIN pending = {}
                           THEN NewFlushes = {} /\ api_call' = "none"
                           ELSE /\ api_call' = "start"
                                /\ Cardinality(NewFlushes) = 1
                                /\ \A g \in NewFlushes :
                                       /\ g.origin = "start"
                                       /\ Ids(g.batch) \ Ids(pending) = next_id..(next_id' - 1)
                                       /\ \A e \in good :
                                              \E k \in DOMAIN g.batch :
                                                  /\ g.batch[k].sensor = e
                                                  /\ g.batch[k].value = v(e)
                                                  /\ g.batch[k].timestamp = t(e)
                                                  /\ g.batch[k].id >= next_id
        /\ (\E f \in inflight : f.origin = "start") => api_call = "start"
        /\ (last'.op = "settle" /\ last'.f.origin = "start" /\ last'.ok) =>
               /\ Ids(last'.f.batch) \subseteq sink'
               /\ api_call' = "none"
      ]_vars

\* The slots of a forecast list as the claims describe them.
TimeKeys == <<"datetime", "time", "period_end">>
IsRecord(item) == item.kind = "dict"
\* The first time key a record has / the first it has with a non-empty value.
FirstPresent(item) ==
    IF \E i \in 1..3 : TimeKeys[i] \in DOMAIN item.d
    THEN item.d[TimeKeys[CHOOSE i \in 1..3 :
                    /\ TimeKeys[i] \in DOMAIN item.d
                    /\ \A j \in 1..(i - 1) : TimeKeys[j] \notin DOMAIN item.d]]
    ELSE NoneV
FirstNonEmpty(item) ==
    LET has(i) == TimeKeys[i] \in DOMAIN item.d /\ item.d[TimeKeys[i]] \notin {NoneV, StrV("")}
    IN  IF \E i \in 1..3 : has(i)
        THEN item.d[TimeKeys[CHOOSE i \in 1..3 : has(i) /\ \A j \in 1..(i - 1) : ~has(j)]]
        ELSE NoneV
SlotValue(item, key) == IF key \in DOMAIN item.d THEN item.d[key] ELSE NoneV
SecondOf(raw) == [s |-> ParseDatetime(raw).s, us |-> 0]

\* The forecast list an attribute-read forecast event delivered in this step.
AttrEvent(e) ==
    /\ last'.op = "forecast"
    /\ last'.result \in {"queued", "raised"}
    /\ source.kind = "attr"
    /\ e \in Entities
    /\ IsForecast(e)
    /\ ~IsWeatherEntity(e)

FetchFailed(response, e) ==
    \/ response.kind # "dict"
    \/ e \notin DOMAIN response.d
    \/ response.d[e].kind # "dict"
    \/ "forecast" \notin DOMAIN response.d[e].d
    \/ response.d[e].d["forecast"].kind # "list"

ForecastStepOf(e) ==
    /\ last'.op = "forecast"
    /\ e \in Entities
    /\ IsForecast(e)
    /\ IsWeatherEntity(e) <=> (source.kind = "weather")

\* C19: the handler of a forecast sensor's change event changes no sensor's
\* last value or timestamp and replaces or removes no pending point of another
\* sensor; every point it enqueues is held under its sensor's key with its
\* own whole-second timestamp, so points of different slots stay side by side
\* and apart from the points of a current-value sensor.
C19_ForecastFrame ==
    [][ \A e \in AllEntities :
            ForecastStepOf(e) =>
                /\ sensors' = sensors
                /\ \A k \in DOMAIN pending :
                       /\ k \in DOMAIN pending'
                       /\ pending[k].sensor # e => pending'[k] = pending[k]
                /\ \A k \in DOMAIN pending' :
                       pending'[k].id >= next_id =>
                           /\ pending'[k].sensor = e
                           /\ k = <<SENSOR_DEFINITIONS[e].key, pending'[k].timestamp>>
                           /\ pending'[k].timestamp.us = 0
                /\ \A k1, k2 \in DOMAIN pending' :
                       (pending'[k1].sensor # pending'[k2].sensor
                        \/ pending'[k1].timestamp # pending'[k2].timestamp) => k1 # k2
      ]_vars

\* Two slots of one forecast beside a point of the current-value sensor that
\* carries the timestamp of one of them.
C19_Witness ==
    /\ last.op = "forecast"
    /\ Len(last.order) = 2
    /\ \E k1, k2, k3 \in DOMAIN pending :
           /\ pending[k1].sensor = "sensor.house_power"
           /\ pending[k2].sensor = "sensor.pv_forecast"
           /\ pending[k3].sensor = "sensor.pv_forecast"
           /\ k2 # k3
           /\ pending[k1].timestamp = pending[k2].timestamp

\* C15 as stated: the pending map holds at most one point of a non-forecast
\* sensor, under the sensor key alone.
C15_OnePointPerSensor ==
    \A e \in Entities :
        ~IsForecast(e) =>
            /\ Cardinality({k \in DOMAIN pending : pending[k].sensor = e}) <= 1
            /\ \A k \in DOMAIN pending :
                   pending[k].sensor = e => k = <<SENSOR_DEFINITIONS[e].key, NoTime>>

\* C15 amended: every pending point, of a non-forecast sensor too, is held
\* under its sensor key together with its whole-second timestamp, in the
\* pending map and in every batch in flight; a value accepted for a sensor
\* replaces the pending point of the same sensor and second and no other.
C15_KeyedBySensorAndSecond ==
    [][ /\ \A k \in DOMAIN pending' :
               /\ k = <<SENSOR_DEFINITIONS[pending'[k].sensor].key, pending'[k].timestamp>>
               /\ pending'[k].timestamp.us = 0
        /\ \A f \in inflight' : \A k \in DOMAIN f.batch :
               k = <<SENSOR_DEFINITIONS[f.batch[k].sensor].key, f.batch[k].timestamp>>
        /\ (last'.op = "event" /\ last'.result \in {"queued", "gap_fill"}) =>
               \A k \in DOMAIN pending :
                   /\ k \in DOMAIN pending'
                   /\ pending'[k] # pending[k] =>
                          /\ pending'[k].id >= next_id
                          /\ pending'[k].sensor = pending[k].sensor
                          /\ pending'[k].timestamp = pending[k].timestamp
      ]_vars

\* Two points of one current-value sensor pending at once.
C15_Witness ==
    \E k1, k2 \in DOMAIN pending :
        /\ k1 # k2
        /\ pending[k1].sensor = "sensor.house_power"
        /\ pending[k2].sensor = "sensor.house_power"
        /\ last.op = "event"
        /\ last.result = "queued"

\* The points SpecLive can enqueue and the keys it can hold them under.
LiveIds == 1..(MaxPointsLive + 2)
LiveKeys == {PendingKey("sensor.house_power", [s |-> t, us |-> 0]) : t \in {0, 29, 30}}

\* Once no write fails any more and no change event arrives any more, the
\* pending map becomes and stays empty.
DrainsWhenQuiet ==
    (<>[]~SettledFailed /\ <>[](last.op # "event")) => <>[](DOMAIN pending = {})

\* C14 as stated: with the timer firing and the writes settling, if the writes
\* fail only finitely often then every point that is in the pending map is
\* eventually written to the sink; and once the change events have stopped
\* too the pending map becomes and stays empty.
C14_PendingEventuallyWritten ==
    /\ <>[]~SettledFailed =>
           \A id \in LiveIds : (id \in PendingIds) ~> (id \in sink)
    /\ DrainsWhenQuiet

\* C14 amended: with the timer firing and the writes settling, if the writes
\* fail only finitely often then every point held in the pending map under a
\* key is eventually written to the sink unless another point comes to hold
\* that key in the pending map; and once the change events have stopped too
\* the pending map becomes and stays empty.
C14_WrittenOrDisplaced ==
    /\ <>[]~SettledFailed =>
           \A id \in LiveIds : \A k \in LiveKeys :
               (k \in DOMAIN pending /\ pending[k].id = id)
                   ~> (\/ id \in sink
                       \/ (k \in DOMAIN pending /\ pending[k].id # id))
    /\ DrainsWhenQuiet

\* A write that was alone in flight is accepted and carries a point older than
\* one the sink already holds: the point came back from a failed write.
C14_Witness ==
    /\ last.op = "settle"
    /\ last.ok
    /\ last.f.alone
    /\ DOMAIN pending = {}
    /\ \E pt \in last.f.points : \E id \in sink :
           /\ id > pt.id
           /\ id \notin {q.id : q \in last.f.points}

\* The validation of the step in progress failed.
ValidationFailed == flow.outcome \notin {"none", "ok"}

\* C20: a step of the set-up or reconfigure flow creates or updates a config
\* entry only after its validation succeeded, and then with the data that
\* was validated; a step whose validation failed, in whichever way, leaves
\* the entries as they are and returns its own form with an error; and no
\* step returns with the client it built still open.
C20_EntryOnlyWhenValidated ==
    [][ /\ flow'.entries # flow.entries =>
               /\ flow'.outcome = "ok"
               /\ \A u \in DOMAIN flow'.entries :
                      (u \notin DOMAIN flow.entries \/ flow'.entries[u] # flow.entries[u])
                          => flow'.entries[u] = flow.input
        /\ (flow'.step = "returned" /\ flow.step = "closing" /\ ValidationFailed) =>
               /\ flow'.entries = flow.entries
               /\ flow'.result.type = "form"
               /\ flow'.result.step_id = flow.kind
               /\ flow'.result.error \in {"cannot_connect", "unknown"}
        /\ flow'.step = "returned" => flow'.client # "open"
      ]_vars

\* A step returned its form after the bucket was not found, its client
\* closed, while an entry of an earlier validated step exists.
C20_Witness ==
    /\ last.op = "flow_returns"
    /\ flow.outcome = "bucket_none"
    /\ flow.result = ShowForm(flow.kind, "cannot_connect")
    /\ flow.client = "closed"
    /\ DOMAIN flow.entries # {}

\* The integer nearest to a number given in thousandths, ties to even.
RoundHalfEven(m) ==
    LET q == m \div 1000
        r == m % 1000
    IN  IF r < 500 THEN q
        ELSE IF r > 500 THEN q + 1
        ELSE IF q % 2 = 0 THEN q ELSE q + 1

\* A number or a numeric string with a finite value.
IsFiniteNumeric(value) ==
    \/ value.t = "int"
    \/ value.t = "float" /\ value.k = "fin"
    \/ value.t = "str" /\ value.s \in DOMAIN ParseInt
    \/ value.t = "str" /\ value.s \in DOMAIN ParseFloat /\ ParseFloat[value.s].k = "fin"

\* C21: coercion to int gives, for every finite numeric or numeric-string
\* input, the integer nearest to its value, with ties to even.
C21_RoundsHalfEven ==
    (/\ coerce.done
     /\ last.op = "coerce_return"
     /\ coerce.data_type = "int"
     /\ IsFiniteNumeric(coerce.value))
    => coerce.result = IntV(RoundHalfEven(ToFloat(coerce.value).m))

\* The strings of the model that spell a true and a false word in any case.
TrueWords == {"on", "ON", "true", "True", "1", "yes", "Yes"}
FalseWords == {"off", "OFF", "false", "0", "no"}

\* C23: coercion to bool returns a boolean unchanged, the truthiness of a
\* number, the table entry of a string looked up without regard to case, and
\* None for every other string or value; a declared type that is not known
\* passes the value through.
C23_BoolCoercion ==
    (coerce.done /\ last.op = "coerce_return") =>
        /\ coerce.data_type = "bool" =>
               coerce.result =
                   IF coerce.value.t = "bool" THEN coerce.value
                   ELSE IF coerce.value.t \in {"int", "float"}
                        THEN BoolV(coerce.value \notin {IntV(0), FloatV(0)})
                   ELSE IF coerce.value.t = "str" /\ coerce.value.s \in TrueWords
                        THEN BoolV(TRUE)
                   ELSE IF coerce.value.t = "str" /\ coerce.value.s \in FalseWords
                        THEN BoolV(FALSE)
                   ELSE NoneV
        /\ coerce.data_type \notin {"int", "float", "string", "bool"} =>
               coerce.result = coerce.value

\* "ON" was coerced to bool.
C23_Witness ==
    /\ coerce.done
    /\ last.op = "coerce_return"
    /\ coerce.data_type = "bool"
    /\ coerce.value = StrV("ON")
    /\ coerce.result = BoolV(TRUE)

\* What the claim's priority gives for each raw string of the model.
ExpectedValue ==
    ("0" :> IntV(0)) @@ ("5" :> IntV(5)) @@ ("05" :> FloatV(5000)) @@
    ("+5" :> FloatV(5000)) @@ ("5.7" :> FloatV(5700)) @@ ("inf" :> InfV) @@
    ("nan" :> NaNV) @@ ("on" :> BoolV(TRUE)) @@ ("ON" :> BoolV(TRUE)) @@
    ("True" :> BoolV(TRUE)) @@ ("OFF" :> BoolV(FALSE)) @@ ("false" :> BoolV(FALSE)) @@
    ("abc" :> StrV("abc")) @@ ("" :> StrV("")) @@
    ("unknown" :> NoneV) @@ ("unavailable" :> NoneV)

\* C22: _state_to_value gives None for a missing, unknown or unavailable
\* state; the integer for a string that is exactly an integer's decimal form;
\* else the float for a string float() accepts; else true or false for
\* on/true and off/false in any case; else the raw string.
C22_ValuePriority ==
    (call.done /\ call.fn = "state_to_value") =>
        call.result = IF call.state = NoState THEN NoneV
                      ELSE ExpectedValue[call.state.state]

\* "05" is accepted by int() but is not the decimal form of 5.
C22_Witness ==
    /\ call.done
    /\ call.fn = "state_to_value"
    /\ call.state # NoState
    /\ call.state.state = "05"
    /\ call.result = FloatV(5000)

\* The time an attribute value yields according to the claim, NoTime if none.
YieldedTime(a) ==
    IF a.t = "datetime" THEN a.at
    ELSE IF a = StrV("T30") THEN [s |-> 30, us |-> 0]
    ELSE IF a.t = "num" /\ a # NaNA /\ a.n <= MillisThreshold /\ a.n <= LastUnixSecond
         THEN [s |-> a.n, us |-> 0]
    ELSE IF a.t = "num" /\ a.n > MillisThreshold /\ a.n \div 1000 <= LastUnixSecond
         THEN [s |-> a.n \div 1000, us |-> 0]
    ELSE NoTime

\* The positions in TIME_KEYS of the attributes of a state that yield a time.
YieldingKeys(state) ==
    {i \in 1..Len(TIME_KEYS) :
        /\ TIME_KEYS[i] \in DOMAIN state.attributes
        /\ YieldedTime(state.attributes[TIME_KEYS[i]]) # NoTime}

\* C24: _state_to_timestamp returns the time of the first attribute, in the
\* order of TIME_KEYS, that yields one (a number as Unix seconds up to 10^12
\* and as milliseconds above, a string parsed as a datetime), and the state's
\* last_updated when no attribute yields a time.
C24_FirstAttributeTime ==
    (call.done /\ call.fn = "state_to_timestamp" /\ call.state # NoState) =>
        LET yielding == YieldingKeys(call.state)
            first == CHOOSE i \in yielding : \A j \in yielding : i <= j
        IN  call.result = IF yielding = {} THEN call.state.last_updated
                          ELSE YieldedTime(call.state.attributes[TIME_KEYS[first]])

\* The first attribute is exactly 10^12 and out of range as seconds, the
\* second is a number of milliseconds.
C24_Witness ==
    /\ call.done
    /\ call.fn = "state_to_timestamp"
    /\ call.state # NoState
    /\ call.state.attributes =
           ("time" :> NumA(MillisThreshold)) @@ ("last_update" :> NumA(17000))
    /\ call.result = [s |-> 17, us |-> 0]

\* The raw states the int sensor of the model cannot take.
UncoercibleStates == {"abc", "inf"}

\* The event names no configured sensor, or carries no usable state, or a
\* value that fails coercion.
Rejected(e, new_state) ==
    \/ e \notin Entities
    \/ new_state = NoState
    \/ new_state.state \in {STATE_UNKNOWN, STATE_UNAVAILABLE}
    \/ new_state.state \in UncoercibleStates

\* The handler of a current-value sensor leaves the pending map and the
\* sensors alone when the event is rejected.
RejectedChangesNothing ==
    \A e \in EventEntities : \A new_state \in States \cup {NoState} :
        (HandleStateChange(e, new_state) /\ Rejected(e, new_state))
            => UNCHANGED <<pending, sensors, next_id>>

\* C25 as stated: a change event for an entity that is not configured, or
\* whose new state is missing, unknown or unavailable, or whose value fails
\* coercion, leaves the pending map and every sensor's last value and
\* timestamp unchanged.
C25_RejectedEventFrame ==
    [][ /\ RejectedChangesNothing
        /\ \A e \in AllEntities : \A new_state \in ForecastStates(e) :
               (HandleForecastChange(e, new_state) /\ Rejected(e, new_state))
                   => UNCHANGED <<pending, sensors, next_id>>
      ]_vars

\* C25 amended: the frame holds for every such event of an entity that is
\* not configured or of a sensor that is not a forecast sensor, and for the
\* event of a forecast sensor whose new state is missing.
C25_RejectedValueFrame ==
    [][ /\ RejectedChangesNothing
        /\ \A e \in AllEntities :
               HandleForecastChange(e, NoState) => UNCHANGED <<pending, sensors, next_id>>
      ]_vars

\* A value that fails coercion arrived while a point was pending and the
\* sensor had a last value.
C25_Witness ==
    /\ last.op = "event"
    /\ last.result \in {"rejected", "raised"}
    /\ DOMAIN pending # {}
    /\ sensors["sensor.house_power"].last_value # NoneV

\* C26: once every flush in flight has settled, no key of the pending map
\* holds a value older than an unwritten value enqueued under it: after the
\* failed write that settles last, each key of its batch holds the batch's
\* point or one enqueued later.
C26_NewestUnwrittenStays ==
    (SettledFailed /\ inflight = {}) =>
        \A k \in DOMAIN last.f.batch :
            /\ k \in DOMAIN pending
            /\ pending[k].id >= last.f.batch[k].id

\* C27: once stop() has returned no batched write is in flight, so nothing
\* is put back into the pending map afterwards.
C27_QuiescentAfterStop ==
    (stopped /\ api_call = "none") => inflight = {}

\* The point is pending or in flight under the key.
Held(id, k) ==
    \/ k \in DOMAIN pending /\ pending[k].id = id
    \/ \E f \in inflight : k \in DOMAIN f.batch /\ f.batch[k].id = id

\* C28: a point that is pending or in flight is, after every step, still
\* pending or in flight, or written to the sink, or its key is held in the
\* pending map by a point enqueued later.
C28_NoPointLost ==
    [][ \A id \in Ids(pending) \cup InflightIds :
            \A k \in DOMAIN pending \cup UNION {DOMAIN f.batch : f \in inflight} :
                Held(id, k) =>
                    \/ id \in Ids(pending') \cup sink'
                    \/ \E g \in inflight' : id \in Ids(g.batch)
                    \/ (k \in DOMAIN pending' /\ pending'[k].id > id)
      ]_vars

\* C29: the zero that gap-filling enqueues takes the place of no pending
\* point that carries an observed value other than zero.
C29_GapFillReplacesNothing ==
    [][ (last'.op = "event" /\ last'.result = "gap_fill") =>
            \A k \in DOMAIN pending :
                pending'[k].id = next_id => pending[k].value = IntV(0)
      ]_vars

\* C30: a batched write that the sink accepts carries, under no key, a point
\* older than one the sink has already been sent under that key.
C30_NoOlderAfterNewer ==
    (last.op = "settle" /\ last.ok) =>
        \A k \in DOMAIN last.f.batch \cap DOMAIN last.f.newer :
            last.f.newer[k] \notin sink

\* C31: between two calls of async_close the wrapper creates at most one
\* client and at most one write API, however the calls that find it
\* unconnected interleave; when async_close returns every client created so
\* far has been closed (or is being closed by an async_close still in
\* progress); an async_close that follows an async_close changes nothing.
CloseReturned == last.op = "close_returns" \/ (last.op = "close" /\ last.returned)

\* The clients an async_close still in progress is closing.
BeingClosed == {t.client : t \in {u \in influx.tasks : u.at = "close"}}

C31_OneClientPerConnection ==
    [][ /\ influx'.built <= 1
        /\ influx'.apis <= 1
        /\ CloseReturned' => influx'.created \subseteq influx'.shut \cup BeingClosed'
        /\ (last'.op = "close" /\ CloseReturned) => influx' = influx
      ]_vars

\* C33: a SensorBuffer never holds more than max_points items, and the items
\* it holds are the most recently enqueued ones in enqueue order: trimming
\* drops from the oldest end only.
C33_BoundedNewestKept ==
    /\ Len(buffer.items) <= max_points
    /\ \A i \in 1..Len(buffer.items) :
           buffer.items[i].id = buffer.next - 1 - (Len(buffer.items) - i)

\* An enqueue on a full buffer has trimmed it.
C33_Witness ==
    /\ last.op = "enqueue"
    /\ last.trimmed
    /\ Len(buffer.items) = max_points
    /\ buffer.next - 1 > max_points

\* No item of the deque is older than max_age at the time `now'.
NoneOlder(items, now) == \A i \in 1..Len(items) : ~(items[i].ts < now - max_age)

\* C34: after prune(now) no item whose timestamp is earlier than
\* now - max_age remains in the buffer, and after enqueue(value, now) none of
\* the previously buffered items is, whatever timestamps were enqueued.
C34_PruneDropsAllOld ==
    [][ \A now \in BufferTimes :
            /\ PruneAt(now) => NoneOlder(buffer'.items, now)
            /\ EnqueueAt(now) =>
                   NoneOlder(SubSeq(buffer'.items, 1, Len(buffer'.items) - 1), now)
      ]_vars

\* The ids of the items of a deque, as a set.
IdSet(items) == {items[i].id : i \in 1..Len(items)}

\* C32: flush writes the items oldest-first and returns True exactly when
\* the buffer is empty afterwards; on the first write that fails with one of
\* error_types it returns False and leaves the failed item and all later
\* items in the buffer in their order, the items written before it removed.
C32_FlushOldestFirst ==
    [][ /\ last'.op = "flush_returns" => (last'.result <=> buffer'.items = <<>>)
        /\ \A id \in Flushing :
               /\ WriteFnSettlesFor(id, "ok") =>
                      /\ buffer.items # <<>>
                      /\ buffer.items[1].id = id
                      /\ id \notin IdSet(buffer'.items)
               /\ WriteFnSettlesFor(id, "error") =>
                      /\ last'.op = "flush_returns" /\ ~last'.result
                      /\ buffer'.written = buffer.written
                      /\ buffer.items # <<>>
                      /\ buffer.items[1].id = id
                      /\ buffer'.items = buffer.items
                      /\ \A j \in IdSet(buffer'.items) : buffer.written[j] = 0
      ]_vars

\* C35: with an enqueue during the await of write_fn, or with two flushes
\* overlapping, the pop that follows a write removes only the item whose
\* write has just returned: nothing leaves the buffer unwritten through
\* flush, and no item is written twice.
C35_FlushPopsWhatItWrote ==
    [][ \A id \in Flushing :
            WriteFnSettlesFor(id, "ok") =>
                /\ IdSet(buffer.items) \ IdSet(buffer'.items) \subseteq {id}
                /\ \A j \in IdSet(buffer.items) \ IdSet(buffer'.items) :
                       buffer'.written[j] > 0
                /\ \A j \in 1..Len(buffer'.written) : buffer'.written[j] <= 1
      ]_vars

====
